---------------------------- MODULE Spec2Model ----------------------------
(***************************************************************************)
(* TerraView: the progressive colour enrichment of the globe's features    *)
(* (components/GlobeView.jsx), the flag palette extractor                   *)
(* (utils/flagColorExtractor, held in utils/colorUtils.js) and the          *)
(* reference-set loader with retry (utils/countryMatcher, held in           *)
(* utils/populationFormatter.js), the capital loader                        *)
(* (services/CapitalService.js), and the session of the page: the flag      *)
(* lookup across mounts, the teardown, the country clicks of GlobeView and  *)
(* the accurate population of hooks/useCountryPopulation.js.                *)
(***************************************************************************)
EXTENDS Integers, Sequences, FiniteSets, TLC

VARIABLES
    features,          \* countries.features: the code fields, baseColor, color
    flagLookupCache,   \* GlobeView.jsx module variable flagLookupCache
    flagMap,           \* the enrichment closure's flagMap
    index,             \* the enrichment closure's index
    sliceStart,        \* processNext's start of the slice in flight
    sliceEnd,          \* processNext's end of the slice in flight
    unit,              \* per feature: the position of its slice.map callback
    flagColorCache,    \* colorUtils.js flagColorCache (url -> result)
    imageLoads,        \* per url: how many times loadImage was called
    enrichPc,          \* position of the enrichment closure
    publishes,         \* how many times processNext refreshed the globe colours
    published,         \* the colours the globe read at the last refresh
    allCountriesCache, \* populationFormatter.js allCountriesCache
    cacheTimestamp,    \* populationFormatter.js cacheTimestamp
    now,               \* Date.now()
    calls,             \* per caller: the position of its fetchCountryData call
    storedAt,          \* when the fetch that filled allCountriesCache completed
    query,             \* matchCountryName's argument geoJsonName
    referenceSet,      \* matchCountryName's argument apiCountries
    matchResults,      \* what the calls of matchCountryName on them returned
    rawName,           \* normalizeName's argument
    normalized,        \* what normalizeName returned for it
    extracts,          \* per caller: the position of its extractFlagColors call
    hexA,              \* a colour string handed to the hex helpers (the accent)
    hexB,              \* a second colour string (the base of mix)
    hexOut,            \* what the hex helpers returned for them
    rgbA,            \* an {r, g, b} colour handed to quantize / colorDistance
    rgbB,            \* a second {r, g, b} colour
    quantStep,         \* quantize's argument step
    mathOut,           \* what quantize / colorDistance returned for them
    buckets,           \* sampleImageColors' Map buckets, in insertion order
    scanned,           \* the pixels of the image data sampleImageColors has read
    ranking,           \* what sampleImageColors returned, and the result built on it
    palettes,          \* per call: the position of its getCountryPalette call
    isLoaded,          \* CapitalService.js isLoaded
    loadPromise,       \* CapitalService.js loadPromise
    capitalCache,      \* CapitalService.js capitalCache
    capitalLoads,      \* the loads loadCapitalData started, one request each
    capitalCalls,      \* per caller: the position of its loadCapitalData call
    lookups,           \* per mount: the position of its loadFlagLookup call
    mounted,           \* whether the GlobeView effect's cleanup has yet to run
    selectedCountry,   \* GlobeView state selectedCountry
    countryData,       \* GlobeView state countryData
    isLoadingCountry,  \* GlobeView state isLoadingCountry
    isPanelOpen,       \* GlobeView state isPanelOpen
    clicks,            \* the calls of handleCountryClick, in the order of the clicks
    cca2,              \* useCountryPopulation's countryData?.cca2
    worldBankCache,    \* useCountryPopulation.js worldBankCache
    worldBankData,     \* useCountryPopulation state worldBankData
    isLoading,         \* useCountryPopulation state isLoading
    error,             \* useCountryPopulation state error
    prefetchTimer,     \* whether CountryLayer's prefetch timer is armed
    wbFetches          \* the calls of fetchWorldBankPopulation, in call order

enrichVars == <<features, flagLookupCache, flagMap, index, sliceStart, sliceEnd,
                unit, flagColorCache, imageLoads, enrichPc, publishes, published>>
fetchVars == <<allCountriesCache, cacheTimestamp, now, calls, storedAt>>
matchVars == <<query, referenceSet, matchResults, rawName, normalized>>
extractVars == <<extracts>>
hexVars == <<hexA, hexB, hexOut>>
mathVars == <<rgbA, rgbB, quantStep, mathOut>>
sampleVars == <<buckets, scanned, ranking>>
paletteVars == <<palettes>>
capitalVars == <<isLoaded, loadPromise, capitalCache, capitalLoads, capitalCalls>>
lookupVars == <<lookups>>
mountVars == <<mounted>>
clickVars == <<selectedCountry, countryData, isLoadingCountry, isPanelOpen, clicks>>
hookVars == <<cca2, worldBankCache, worldBankData, isLoading, error, prefetchTimer,
              wbFetches>>
sessionVars == <<lookupVars, mountVars, clickVars, hookVars>>
vars == <<features, flagLookupCache, flagMap, index, sliceStart, sliceEnd,
          unit, flagColorCache, imageLoads, enrichPc, publishes, published,
          allCountriesCache, cacheTimestamp, now, calls, storedAt,
          query, referenceSet, matchResults, rawName, normalized, extracts,
          hexA, hexB, hexOut, rgbA, rgbB, quantStep, mathOut,
          buckets, scanned, ranking, palettes,
          isLoaded, loadPromise, capitalCache, capitalLoads, capitalCalls,
          lookups, mounted, selectedCountry, countryData, isLoadingCountry,
          isPanelOpen, clicks, cca2, worldBankCache, worldBankData, isLoading,
          error, prefetchTimer, wbFetches>>

\* What the actions of one part of the program leave alone.
colourVars == <<hexVars, mathVars, sampleVars>>
notEnrichVars == <<fetchVars, matchVars, extractVars, colourVars, paletteVars, capitalVars,
    sessionVars>>
notFetchVars == <<enrichVars, matchVars, extractVars, colourVars, paletteVars, capitalVars,
    sessionVars>>
notMatchVars == <<enrichVars, fetchVars, extractVars, colourVars, paletteVars, capitalVars,
    sessionVars>>
notExtractVars == <<fetchVars, matchVars, colourVars, capitalVars,
    sessionVars>>
notHexVars == <<enrichVars, fetchVars, matchVars, extractVars, mathVars, sampleVars,
                paletteVars, capitalVars,
    sessionVars>>
notMathVars == <<enrichVars, fetchVars, matchVars, extractVars, hexVars, sampleVars,
                 paletteVars, capitalVars,
    sessionVars>>
notSampleVars == <<enrichVars, fetchVars, matchVars, extractVars, hexVars, mathVars,
                   paletteVars, capitalVars,
    sessionVars>>
notCapitalVars == <<enrichVars, fetchVars, matchVars, extractVars, colourVars, paletteVars,
    sessionVars>>
\* Everything but the state of the session: the mounts, the panel, the hook.
notSessionVars == <<fetchVars, matchVars, extractVars, colourVars, paletteVars, capitalVars>>
enrichRunVars == <<features, flagMap, index, sliceStart, sliceEnd, unit, flagColorCache,
                   imageLoads, enrichPc, publishes, published>>

None == "null"

(***************************************************************************)
(* Bounds of the model.                                                     *)
(***************************************************************************)
MaxFeatures == 13
MaxCallers == 2
MaxElapses == 4
MaxRecords == 3
MaxResolves == 2
MaxLen == 3
MaxExtractors == 2
MaxPixels == 8
MaxLoads == 2
MaxLiveFeatures == 7
MaxMounts == 3
MaxClicks == 3
MaxRequests == 3

(***************************************************************************)
(* GlobeView.jsx: base colours, the flag lookup, the feature set.           *)
(***************************************************************************)
concurrency == 6

GlobeContinentBaseColors ==
    [Africa |-> "#79B957", Americas |-> "#32A189", Asia |-> "#F4CE29",
     Europe |-> "#8BBED8", Oceania |-> "#C77442", Antarctic |-> "#7C94A4",
     default |-> "#B1C4BB"]

getBaseColorForFeature(continent) ==
    IF continent \in DOMAIN GlobeContinentBaseColors
    THEN GlobeContinentBaseColors[continent]
    ELSE GlobeContinentBaseColors["default"]

\* The boundary dataset: seven kinds of feature, repeated in this order.
\*  1 a code of the lookup, flag fr.svg       2 no identity code at all
\*  3 a code the lookup does not hold         4 a lower-case code, flag es.svg
\*  5 a lookup entry without flag urls        6 code in ISO_A3 only, flag fr.svg
\*  7 a code of the lookup, flag de.svg
NoCodes == [id |-> None, ISO_A3 |-> None, ADM0_A3 |-> None, iso_a3 |-> None]

FeatureKinds ==
    << [code |-> [NoCodes EXCEPT !.id = "FRA"],      continent |-> "Europe"],
       [code |-> NoCodes,                            continent |-> "Asia"],
       [code |-> [NoCodes EXCEPT !.ADM0_A3 = "XKX"], continent |-> "Europe"],
       [code |-> [NoCodes EXCEPT !.iso_a3 = "esp"],  continent |-> "Europe"],
       [code |-> [NoCodes EXCEPT !.id = "ATA"],      continent |-> "Antarctica"],
       [code |-> [NoCodes EXCEPT !.ISO_A3 = "FRA"],  continent |-> "Africa"],
       [code |-> [NoCodes EXCEPT !.id = "DEU"],      continent |-> "Oceania"] >>

FeatureAt(i) ==
    LET k == FeatureKinds[((i - 1) % Len(FeatureKinds)) + 1]
        baseColor == getBaseColorForFeature(k.continent)
    IN  [id |-> k.code.id, ISO_A3 |-> k.code.ISO_A3, ADM0_A3 |-> k.code.ADM0_A3,
         iso_a3 |-> k.code.iso_a3, baseColor |-> baseColor, color |-> baseColor]

\* The response of the country service, as loadFlagLookup keys it.
LoadedFlagMap ==
    [c \in {"FRA", "ESP", "ATA", "DEU"} |->
        CASE c = "FRA" -> [region |-> "Europe",    flags |-> "fr.svg"]
          [] c = "ESP" -> [region |-> "Europe",    flags |-> "es.svg"]
          [] c = "ATA" -> [region |-> "Antarctic", flags |-> None]
          [] c = "DEU" -> [region |-> "Europe",    flags |-> "de.svg"]]

EmptyFlagMap == [c \in {} |-> None]

\* flagLookupCache: null (set = FALSE) or a Map. A Map is truthy whatever it
\* holds.
NoFlagLookup == [set |-> FALSE, map |-> EmptyFlagMap]

FlagLookup(fm) == [set |-> TRUE, map |-> fm]

Urls == {"fr.svg", "es.svg", "de.svg"}

toUpperCase(s) ==
    CASE s = "esp" -> "ESP"
      [] s = "fra" -> "FRA"
      [] OTHER -> s

\* feature.id || properties?.ISO_A3 || properties?.ADM0_A3 || properties?.iso_a3
Iso3Of(f) ==
    IF f.id # None THEN f.id
    ELSE IF f.ISO_A3 # None THEN f.ISO_A3
    ELSE IF f.ADM0_A3 # None THEN f.ADM0_A3
    ELSE f.iso_a3

\* flagMap.get(code): the entry, or undefined (found = FALSE).
NoLookup == [found |-> FALSE, region |-> None, flags |-> None]

FlagMapGetAnyEntry(fm, code) ==
    IF code \in DOMAIN fm
    THEN [found |-> TRUE, region |-> fm[code].region, flags |-> fm[code].flags]
    ELSE [found |-> TRUE, region |-> None, flags |-> "fr.svg"]

FlagMapGet(fm, code) ==
    IF code \in DOMAIN fm
    THEN [found |-> TRUE, region |-> fm[code].region, flags |-> fm[code].flags]
    ELSE NoLookup

(***************************************************************************)
(* colorUtils.js: the extractor and the palette builder.                    *)
(***************************************************************************)
fallbackAccent == "#C77442"

\* The ranked dominant colours sampleImageColors finds in each flag image.
sampleImageColors(url) ==
    CASE url = "fr.svg" -> << "#1050B0", "#F05030" >>
      [] url = "es.svg" -> << "#F0B010", "#B01010" >>
      [] url = "de.svg" -> << "#D01010", "#F0D010" >>

ExtractSuccess(url, fallbackColor) ==
    LET colors == sampleImageColors(url)
    IN  [primary   |-> IF Len(colors) >= 1 THEN colors[1] ELSE fallbackColor,
         secondary |-> IF Len(colors) >= 2 THEN colors[2] ELSE None]

ExtractFallback(fallbackColor) == [primary |-> fallbackColor, secondary |-> None]

\* getCountryPalette after extractFlagColors has returned `result`.
BuildPalette(result, baseColor) ==
    [base      |-> baseColor,
     accent    |-> IF result.primary # None THEN result.primary ELSE fallbackAccent,
     secondary |-> result.secondary]

NoResult == [primary |-> None, secondary |-> None]
NoPalette == [base |-> None, accent |-> None, secondary |-> None]

(***************************************************************************)
(* GlobeView.jsx: the enrichment closure (lines 366-410).                   *)
(***************************************************************************)
N == Len(features)

Min(a, b) == IF a <= b THEN a ELSE b

UnitIdle == [pc |-> "pending", url |-> None, result |-> NoResult, palette |-> NoPalette]

\* The slice.map callback of one feature up to its first suspension: the two
\* early returns, then getCountryPalette -> extractFlagColors up to its await.
UnitStart(f, fm, cache) ==
    LET iso3 == Iso3Of(f)
        lookup == IF iso3 = None THEN NoLookup ELSE FlagMapGet(fm, toUpperCase(iso3))
        flagUrl == lookup.flags
    IN  IF iso3 = None \/ ~lookup.found
        THEN [UnitIdle EXCEPT !.pc = "returned"]
        ELSE IF flagUrl = None
        THEN [UnitIdle EXCEPT !.pc = "resolved", !.result = ExtractFallback(fallbackAccent)]
        ELSE IF flagUrl \in DOMAIN cache
        THEN [UnitIdle EXCEPT !.pc = "resolved", !.url = flagUrl, !.result = cache[flagUrl]]
        ELSE [UnitIdle EXCEPT !.pc = "loading", !.url = flagUrl]

\* The synchronous part of processNext: take the next slice and start its units.
StartSlice(fm) ==
    LET start == index
        end == Min(N, start + concurrency)
        started == [i \in 1..N |->
                      IF i > start /\ i <= end
                      THEN UnitStart(features[i], fm, flagColorCache)
                      ELSE unit[i]]
    IN  /\ sliceStart' = start
        /\ sliceEnd' = end
        /\ index' = end
        /\ unit' = started
        /\ imageLoads' = [u \in Urls |->
               imageLoads[u] + Cardinality({i \in (start + 1)..end :
                   started[i].pc = "loading" /\ started[i].url = u})]
        /\ enrichPc' = "awaitAll"

\* loadFlagLookup resolves with the map of the response; the closure goes on
\* to its first processNext().
LookupLoaded ==
    /\ enrichPc = "lookup"
    /\ flagLookupCache' = FlagLookup(LoadedFlagMap)
    /\ flagMap' = LoadedFlagMap
    /\ StartSlice(LoadedFlagMap)
    /\ UNCHANGED <<features, flagColorCache, publishes, published>>
    /\ UNCHANGED notEnrichVars

\* loadFlagLookup catches the failed fetch and resolves with an empty map.
LookupFailed ==
    /\ enrichPc = "lookup"
    /\ flagLookupCache' = FlagLookup(EmptyFlagMap)
    /\ flagMap' = EmptyFlagMap
    /\ StartSlice(EmptyFlagMap)
    /\ UNCHANGED <<features, flagColorCache, publishes, published>>
    /\ UNCHANGED notEnrichVars

\* img.onload: extractFlagColors samples the image, caches and returns.
ImageLoaded(i) ==
    /\ unit[i].pc = "loading"
    /\ LET result == ExtractSuccess(unit[i].url, fallbackAccent)
       IN  /\ flagColorCache' = [u \in DOMAIN flagColorCache \cup {unit[i].url} |->
                                   IF u = unit[i].url THEN result ELSE flagColorCache[u]]
           /\ unit' = [unit EXCEPT ![i].pc = "resolved", ![i].result = result]
    /\ UNCHANGED <<features, flagLookupCache, flagMap, index, sliceStart, sliceEnd,
                   imageLoads, enrichPc, publishes, published>>
    /\ UNCHANGED notEnrichVars

\* img.onerror: extractFlagColors catches, caches the fallback and returns it.
ImageFailed(i) ==
    /\ unit[i].pc = "loading"
    /\ LET result == ExtractFallback(fallbackAccent)
       IN  /\ flagColorCache' = [u \in DOMAIN flagColorCache \cup {unit[i].url} |->
                                   IF u = unit[i].url THEN result ELSE flagColorCache[u]]
           /\ unit' = [unit EXCEPT ![i].pc = "resolved", ![i].result = result]
    /\ UNCHANGED <<features, flagLookupCache, flagMap, index, sliceStart, sliceEnd,
                   imageLoads, enrichPc, publishes, published>>
    /\ UNCHANGED notEnrichVars

\* palette.accent || feature.baseColor
AccentOrBaseWrongField(palette, baseColor) ==
    IF palette.secondary # None THEN palette.secondary ELSE None

AccentOrBase(palette, baseColor) ==
    IF palette.accent # None THEN palette.accent ELSE baseColor

\* feature.color = ... (lines 393 and 395): the one write of the unit
WriteColorAndBase(fs, i, color) ==
    [fs EXCEPT ![i].color = color, ![i].baseColor = color]

WriteColor(fs, i, color) == [fs EXCEPT ![i].color = color]

\* The try branch of the unit: the palette arrives, the colour is written.
PaletteArrives(i) ==
    /\ unit[i].pc = "resolved"
    /\ LET palette == BuildPalette(unit[i].result, features[i].baseColor)
       IN  /\ features' = WriteColor(features, i,
                                      AccentOrBase(palette, features[i].baseColor))
           /\ unit' = [unit EXCEPT ![i].pc = "written", ![i].palette = palette]
    /\ UNCHANGED <<flagLookupCache, flagMap, index, sliceStart, sliceEnd,
                   flagColorCache, imageLoads, enrichPc, publishes, published>>
    /\ UNCHANGED notEnrichVars

\* What the unit does when getCountryPalette throws.
OnPaletteErrorUncaught(f, u) ==
    [color |-> f.color, pc |-> "rejected"]

OnPaletteError(f, u) ==
    [color |-> f.baseColor, pc |-> "degraded"]

\* The catch branch of the unit.
PaletteThrows(i) ==
    /\ unit[i].pc = "resolved"
    /\ LET out == OnPaletteError(features[i], unit[i])
       IN  /\ features' = WriteColor(features, i, out.color)
           /\ unit' = [unit EXCEPT ![i].pc = out.pc]
    /\ UNCHANGED <<flagLookupCache, flagMap, index, sliceStart, sliceEnd,
                   flagColorCache, imageLoads, enrichPc, publishes, published>>
    /\ UNCHANGED notEnrichVars

Slice == (sliceStart + 1)..sliceEnd

UnitSettledBeforeWrite(u) == u.pc \in {"returned", "resolved", "written", "degraded"}

UnitSettled(u) == u.pc \in {"returned", "written", "degraded"}

\* await Promise.all(...) lets processNext continue.
SliceSettledNoAwait == TRUE

SliceSettledNever == FALSE

SliceSettled == \A i \in Slice : UnitSettled(unit[i])

SliceRejected == \E i \in Slice : unit[i].pc = "rejected"

\* index < features.length
MoreRemainOffByOne == index <= N

MoreRemain == index < N

\* The continuation of processNext after Promise.all: refresh the globe's
\* colours, then schedule the next slice with setTimeout(processNext, 0).
\* A rejected unit rejects Promise.all and with it processNext.
SliceDone ==
    /\ enrichPc = "awaitAll"
    /\ SliceRejected \/ SliceSettled
    /\ IF SliceRejected
       THEN /\ enrichPc' = "aborted"
            /\ UNCHANGED <<publishes, published>>
       ELSE /\ publishes' = publishes + 1
            /\ published' = [i \in 1..N |-> features[i].color]
            /\ enrichPc' = IF MoreRemain THEN "timer" ELSE "done"
    /\ UNCHANGED <<features, flagLookupCache, flagMap, index, sliceStart, sliceEnd,
                   unit, flagColorCache, imageLoads>>
    /\ UNCHANGED notEnrichVars

\* The timer fires: processNext runs for the next slice.
TimerFires ==
    /\ enrichPc = "timer"
    /\ StartSlice(flagMap)
    /\ UNCHANGED <<features, flagLookupCache, flagMap, flagColorCache,
                   publishes, published>>
    /\ UNCHANGED notEnrichVars

InitEnrich ==
    /\ \E n \in 0..MaxFeatures : features = [i \in 1..n |-> FeatureAt(i)]
    /\ flagLookupCache = NoFlagLookup
    /\ flagMap = EmptyFlagMap
    /\ index = 0
    /\ sliceStart = 0
    /\ sliceEnd = 0
    /\ unit = [i \in 1..Len(features) |-> UnitIdle]
    /\ flagColorCache = [u \in {} |-> NoResult]
    /\ imageLoads = [u \in Urls |-> 0]
    /\ enrichPc = "lookup"
    /\ publishes = 0
    /\ published = [i \in 1..Len(features) |-> features[i].color]

NextEnrich ==
    \/ LookupLoaded
    \/ LookupFailed
    \/ \E i \in 1..N : ImageLoaded(i)
    \/ \E i \in 1..N : ImageFailed(i)
    \/ \E i \in 1..N : PaletteArrives(i)
    \/ \E i \in 1..N : PaletteThrows(i)
    \/ SliceDone
    \/ TimerFires


(***************************************************************************)
(* populationFormatter.js (utils/countryMatcher): names are sequences of    *)
(* characters, one string per character ("o^" is the letter o with          *)
(* circumflex); the empty sequence is the empty string.                     *)
(***************************************************************************)
UpperLetters == <<"A","B","C","D","E","F","G","H","I","J","K","L","M",
                  "N","O","P","Q","R","S","T","U","V","W","X","Y","Z">>
LowerLetters == <<"a","b","c","d","e","f","g","h","i","j","k","l","m",
                  "n","o","p","q","r","s","t","u","v","w","x","y","z">>
Digits == {"0","1","2","3","4","5","6","7","8","9"}

Range(f) == {f[x] : x \in DOMAIN f}

UpperSet == Range(UpperLetters)
LowerOf == [c \in UpperSet |-> LowerLetters[CHOOSE k \in 1..26 : UpperLetters[k] = c]]

LowerChar(c) == IF c \in UpperSet THEN LowerOf[c] ELSE c

toLowerCase(str) == [k \in 1..Len(str) |-> LowerChar(str[k])]

\* \w and \s of the regular expressions
WordChars == Range(UpperLetters) \cup Range(LowerLetters) \cup Digits \cup {"_"}
SpaceChars == {" ", "\t"}

IsWordChar(c) == c \in WordChars
IsSpaceChar(c) == c \in SpaceChars

RECURSIVE TrimLeft(_)
TrimLeft(str) ==
    IF str # <<>> /\ IsSpaceChar(Head(str)) THEN TrimLeft(Tail(str)) ELSE str

RECURSIVE TrimRight(_)
TrimRight(str) ==
    IF str # <<>> /\ IsSpaceChar(str[Len(str)])
    THEN TrimRight(SubSeq(str, 1, Len(str) - 1))
    ELSE str

trim(str) == TrimRight(TrimLeft(str))

\* .replace(/[^\w\s]/g, '')
RECURSIVE RemoveSpecial(_)
RemoveSpecial(str) ==
    IF str = <<>> THEN <<>>
    ELSE IF IsWordChar(Head(str)) \/ IsSpaceChar(Head(str))
         THEN <<Head(str)>> \o RemoveSpecial(Tail(str))
         ELSE RemoveSpecial(Tail(str))

\* .replace(/\s+/g, ' ')
RECURSIVE CollapseSpaces(_)
CollapseSpaces(str) ==
    IF str = <<>> THEN <<>>
    ELSE IF IsSpaceChar(Head(str))
         THEN <<" ">> \o CollapseSpaces(TrimLeft(str))
         ELSE <<Head(str)>> \o CollapseSpaces(Tail(str))

normalizeName(name) ==
    IF name = <<>> THEN <<>>
    ELSE CollapseSpaces(RemoveSpecial(trim(toLowerCase(name))))

\* hay.includes(needle)
includes(hay, needle) ==
    \E s \in 1..(Len(hay) + 1) :
        /\ s + Len(needle) - 1 <= Len(hay)
        /\ SubSeq(hay, s, s + Len(needle) - 1) = needle
COUNTRY_NAME_MAP ==
    { <<<<"U", "n", "i", "t", "e", "d", " ", "S", "t", "a", "t", "e", "s">>,
        <<"U", "n", "i", "t", "e", "d", " ", "S", "t", "a", "t", "e", "s", " ", "o", "f", " ", "A", "m", "e", "r", "i", "c", "a">>>>,
      <<<<"U", "n", "i", "t", "e", "d", " ", "S", "t", "a", "t", "e", "s", " ", "o", "f", " ", "A", "m", "e", "r", "i", "c", "a">>,
        <<"U", "n", "i", "t", "e", "d", " ", "S", "t", "a", "t", "e", "s", " ", "o", "f", " ", "A", "m", "e", "r", "i", "c", "a">>>>,
      <<<<"U", "S", "A">>,
        <<"U", "n", "i", "t", "e", "d", " ", "S", "t", "a", "t", "e", "s", " ", "o", "f", " ", "A", "m", "e", "r", "i", "c", "a">>>>,
      <<<<"U", "S">>,
        <<"U", "n", "i", "t", "e", "d", " ", "S", "t", "a", "t", "e", "s", " ", "o", "f", " ", "A", "m", "e", "r", "i", "c", "a">>>>,
      <<<<"R", "u", "s", "s", "i", "a">>,
        <<"R", "u", "s", "s", "i", "a", "n", " ", "F", "e", "d", "e", "r", "a", "t", "i", "o", "n">>>>,
      <<<<"R", "u", "s", "s", "i", "a", "n", " ", "F", "e", "d", "e", "r", "a", "t", "i", "o", "n">>,
        <<"R", "u", "s", "s", "i", "a", "n", " ", "F", "e", "d", "e", "r", "a", "t", "i", "o", "n">>>>,
      <<<<"U", "K">>,
        <<"U", "n", "i", "t", "e", "d", " ", "K", "i", "n", "g", "d", "o", "m">>>>,
      <<<<"U", "n", "i", "t", "e", "d", " ", "K", "i", "n", "g", "d", "o", "m">>,
        <<"U", "n", "i", "t", "e", "d", " ", "K", "i", "n", "g", "d", "o", "m">>>>,
      <<<<"G", "r", "e", "a", "t", " ", "B", "r", "i", "t", "a", "i", "n">>,
        <<"U", "n", "i", "t", "e", "d", " ", "K", "i", "n", "g", "d", "o", "m">>>>,
      <<<<"S", "o", "u", "t", "h", " ", "K", "o", "r", "e", "a">>,
        <<"K", "o", "r", "e", "a", ",", " ", "R", "e", "p", "u", "b", "l", "i", "c", " ", "o", "f">>>>,
      <<<<"N", "o", "r", "t", "h", " ", "K", "o", "r", "e", "a">>,
        <<"K", "o", "r", "e", "a", ",", " ", "D", "e", "m", "o", "c", "r", "a", "t", "i", "c", " ", "P", "e", "o", "p", "l", "e", "'", "s", " ", "R", "e", "p", "u", "b", "l", "i", "c", " ", "o", "f">>>>,
      <<<<"C", "z", "e", "c", "h", " ", "R", "e", "p", "u", "b", "l", "i", "c">>,
        <<"C", "z", "e", "c", "h", "i", "a">>>>,
      <<<<"C", "z", "e", "c", "h", "i", "a">>,
        <<"C", "z", "e", "c", "h", "i", "a">>>>,
      <<<<"M", "y", "a", "n", "m", "a", "r">>,
        <<"M", "y", "a", "n", "m", "a", "r">>>>,
      <<<<"B", "u", "r", "m", "a">>,
        <<"M", "y", "a", "n", "m", "a", "r">>>>,
      <<<<"I", "v", "o", "r", "y", " ", "C", "o", "a", "s", "t">>,
        <<"C", "o^", "t", "e", " ", "d", "'", "I", "v", "o", "i", "r", "e">>>>,
      <<<<"C", "o^", "t", "e", " ", "d", "'", "I", "v", "o", "i", "r", "e">>,
        <<"C", "o^", "t", "e", " ", "d", "'", "I", "v", "o", "i", "r", "e">>>>,
      <<<<"E", "a", "s", "t", " ", "T", "i", "m", "o", "r">>,
        <<"T", "i", "m", "o", "r", "-", "L", "e", "s", "t", "e">>>>,
      <<<<"T", "i", "m", "o", "r", "-", "L", "e", "s", "t", "e">>,
        <<"T", "i", "m", "o", "r", "-", "L", "e", "s", "t", "e">>>>,
      <<<<"M", "a", "c", "e", "d", "o", "n", "i", "a">>,
        <<"N", "o", "r", "t", "h", " ", "M", "a", "c", "e", "d", "o", "n", "i", "a">>>>,
      <<<<"N", "o", "r", "t", "h", " ", "M", "a", "c", "e", "d", "o", "n", "i", "a">>,
        <<"N", "o", "r", "t", "h", " ", "M", "a", "c", "e", "d", "o", "n", "i", "a">>>>,
      <<<<"S", "w", "a", "z", "i", "l", "a", "n", "d">>,
        <<"E", "s", "w", "a", "t", "i", "n", "i">>>>,
      <<<<"E", "s", "w", "a", "t", "i", "n", "i">>,
        <<"E", "s", "w", "a", "t", "i", "n", "i">>>> }

HasMappedNameNever(name) == FALSE

HasMappedName(name) == \E e \in COUNTRY_NAME_MAP : e[1] = name
MappedName(name) == (CHOOSE e \in COUNTRY_NAME_MAP : e[1] = name)[2]

\* Array.prototype.find as an index: the first of the indices whose record
\* satisfies the predicate, 0 (undefined) when there is none.
FirstIndexLast(hits) ==
    IF hits = {} THEN 0 ELSE CHOOSE k \in hits : \A j \in hits : k >= j

FirstIndex(hits) ==
    IF hits = {} THEN 0 ELSE CHOOSE k \in hits : \A j \in hits : k <= j

\* The chain of `if (match) return match` statements: the result of the
\* first strategy that found a record, null (0) after the last.
FirstHitPartialBeforeExact(directMatch, exactMatch, normalizedMatch, partialMatch, altNameMatch) ==
    IF directMatch # 0 THEN directMatch
    ELSE IF partialMatch # 0 THEN partialMatch
    ELSE IF exactMatch # 0 THEN exactMatch
    ELSE IF normalizedMatch # 0 THEN normalizedMatch
    ELSE altNameMatch

FirstHitNeverNull(directMatch, exactMatch, normalizedMatch, partialMatch, altNameMatch) ==
    IF directMatch # 0 THEN directMatch
    ELSE IF exactMatch # 0 THEN exactMatch
    ELSE IF normalizedMatch # 0 THEN normalizedMatch
    ELSE IF partialMatch # 0 THEN partialMatch
    ELSE IF altNameMatch # 0 THEN altNameMatch
    ELSE 1

FirstHit(directMatch, exactMatch, normalizedMatch, partialMatch, altNameMatch) ==
    IF directMatch # 0 THEN directMatch
    ELSE IF exactMatch # 0 THEN exactMatch
    ELSE IF normalizedMatch # 0 THEN normalizedMatch
    ELSE IF partialMatch # 0 THEN partialMatch
    ELSE altNameMatch

\* matchCountryName as the index of the record it returns, 0 for null.
matchCountryName(geoJsonName, apiCountries) ==
    IF geoJsonName = <<>> \/ Len(apiCountries) = 0 THEN 0
    ELSE
    LET Indices == 1..Len(apiCountries)
        mappedName == MappedName(geoJsonName)
        directMatch ==
            IF HasMappedName(geoJsonName)
            THEN FirstIndex({k \in Indices :
                    \/ apiCountries[k].common = mappedName
                    \/ apiCountries[k].official = mappedName})
            ELSE 0
        geoName == toLowerCase(geoJsonName)
        exactMatch ==
            FirstIndex({k \in Indices :
                \/ toLowerCase(apiCountries[k].common) = geoName
                \/ toLowerCase(apiCountries[k].official) = geoName})
        normalizedGeoName == normalizeName(geoJsonName)
        normalizedMatch ==
            FirstIndex({k \in Indices :
                \/ normalizeName(apiCountries[k].common) = normalizedGeoName
                \/ normalizeName(apiCountries[k].official) = normalizedGeoName})
        partialMatch ==
            FirstIndex({k \in Indices :
                LET commonName == toLowerCase(apiCountries[k].common)
                    officialName == toLowerCase(apiCountries[k].official)
                IN  \/ includes(commonName, geoName)
                    \/ includes(geoName, commonName)
                    \/ includes(officialName, geoName)
                    \/ includes(geoName, officialName)})
        \* altSpellings absent is the empty sequence: the guard of line 188
        \* and some() over an empty array both give false.
        altNameMatch ==
            FirstIndex({k \in Indices :
                \E a \in 1..Len(apiCountries[k].altSpellings) :
                    normalizeName(apiCountries[k].altSpellings[a]) = normalizedGeoName})
    IN  FirstHit(directMatch, exactMatch, normalizedMatch, partialMatch, altNameMatch)


\* The reference set the country service answers with.
AllCountries ==
    << [common |-> <<"U", "n", "i", "t", "e", "d", " ", "S", "t", "a", "t", "e", "s">>,
        official |-> <<"U", "n", "i", "t", "e", "d", " ", "S", "t", "a", "t", "e", "s", " ", "o", "f", " ", "A", "m", "e", "r", "i", "c", "a">>,
        altSpellings |-> << <<"U", "S">>, <<"U", "S", "A">>, <<"U", "n", "i", "t", "e", "d", " ", "S", "t", "a", "t", "e", "s", " ", "o", "f", " ", "A", "m", "e", "r", "i", "c", "a">> >>,
        cca3 |-> "USA"],
       [common |-> <<"N", "i", "g", "e", "r">>,
        official |-> <<"R", "e", "p", "u", "b", "l", "i", "c", " ", "o", "f", " ", "N", "i", "g", "e", "r">>,
        altSpellings |-> << <<"N", "E">>, <<"N", "i", "j", "a", "r">> >>,
        cca3 |-> "NER"],
       [common |-> <<"N", "i", "g", "e", "r", "i", "a">>,
        official |-> <<"F", "e", "d", "e", "r", "a", "l", " ", "R", "e", "p", "u", "b", "l", "i", "c", " ", "o", "f", " ", "N", "i", "g", "e", "r", "i", "a">>,
        altSpellings |-> << <<"N", "G">>, <<"N", "i", "j", "e", "r", "i", "y", "a">> >>,
        cca3 |-> "NGA"],
       [common |-> <<"C", "z", "e", "c", "h", "i", "a">>,
        official |-> <<"C", "z", "e", "c", "h", " ", "R", "e", "p", "u", "b", "l", "i", "c">>,
        altSpellings |-> << <<"C", "Z">>, <<"C", "e", "s", "k", "a", " ", "r", "e", "p", "u", "b", "l", "i", "k", "a">> >>,
        cca3 |-> "CZE"],
       [common |-> <<"R", "u", "s", "s", "i", "a">>,
        official |-> <<"R", "u", "s", "s", "i", "a", "n", " ", "F", "e", "d", "e", "r", "a", "t", "i", "o", "n">>,
        altSpellings |-> << <<"R", "U">>, <<"R", "o", "s", "s", "i", "y", "a">> >>,
        cca3 |-> "RUS"] >>

\* The names the user clicks.
ClickedNames ==
    { <<"U", "S", "A">>,
      <<"N", "i", "g", "e", "r", "i", "a">>,
      <<"A", "t", "l", "a", "n", "t", "i", "s">> }

(***************************************************************************)
(* matchCountryName and normalizeName applied to inputs of bounded size.    *)
(***************************************************************************)
\* The names resolved: override keys, names in another case or with
\* punctuation, a fragment several records contain, an alternate spelling,
\* unknown names and the empty name.
Queries ==
    { <<"U", "S", "A">>,
      <<"U", "S">>,
      <<"C", "z", "e", "c", "h", " ", "R", "e", "p", "u", "b", "l", "i", "c">>,
      <<"N", "i", "g", "e", "r", "i", "a">>,
      <<"n", "i", "g", "e", "r", "i", "a">>,
      <<"N", "i", "g", "e", "r", "i", "a", ".">>,
      <<"R", "e", "p", "u", "b", "l", "i", "c">>,
      <<"R", "o", "s", "s", "i", "y", "a">>,
      <<"A", "t", "l", "a", "n", "t", "i", "s">>,
      <<"S", "w", "a", "z", "i", "l", "a", "n", "d">>,
      <<>> }

\* The reference sets: up to MaxRecords distinct records of the service's
\* set, in any order; the empty set included.
ReferenceSets ==
    UNION { { [k \in 1..n |-> AllCountries[p[k]]] :
              p \in { f \in [1..n -> 1..Len(AllCountries)] :
                         \A a, b \in 1..n : a # b => f[a] # f[b] } } :
            n \in 0..Min(MaxRecords, Len(AllCountries)) }

\* The characters of the names normalized: a capital, a small letter, a
\* space, a tab and a punctuation mark.
NameAlphabet == {"A", "b", " ", "\t", "-"}

RawNames == UNION { [1..n -> NameAlphabet] : n \in 0..MaxLen }

NotNormalized == [done |-> FALSE, value |-> <<>>]

\* A call matchCountryName(query, referenceSet) returns.
Resolve ==
    /\ Len(matchResults) < MaxResolves
    /\ matchResults' = Append(matchResults, matchCountryName(query, referenceSet))
    /\ UNCHANGED <<query, referenceSet, rawName, normalized>>
    /\ UNCHANGED notMatchVars

\* A call normalizeName(rawName) returns.
Normalize ==
    /\ ~normalized.done
    /\ normalized' = [done |-> TRUE, value |-> normalizeName(rawName)]
    /\ UNCHANGED <<query, referenceSet, matchResults, rawName>>
    /\ UNCHANGED notMatchVars

InitMatch ==
    /\ query \in Queries
    /\ referenceSet \in ReferenceSets
    /\ matchResults = <<>>
    /\ rawName = <<>>
    /\ normalized = NotNormalized

InitNormalize ==
    /\ query = <<>>
    /\ referenceSet = <<>>
    /\ matchResults = <<>>
    /\ rawName \in RawNames
    /\ normalized = NotNormalized

\* No call of the matcher under way.
InitMatchIdle ==
    /\ query = <<>>
    /\ referenceSet = <<>>
    /\ matchResults = <<>>
    /\ rawName = <<>>
    /\ normalized = NotNormalized

NextMatch == Resolve

NextNormalize == Normalize


(***************************************************************************)
(* populationFormatter.js: fetchCountryData (lines 204-259).                *)
(***************************************************************************)
CACHE_DURATION == 1000 * 60 * 30
maxRetries == 3

\* The clock starts at a positive time and is read to the ten minutes: the
\* seconds of a backoff delay do not move it.
StartTime == CACHE_DURATION
ElapseStep == CACHE_DURATION \div 3

Callers == 1..MaxCallers

\* allCountriesCache: null (set = FALSE) or the array of the last response.
NoCache == [set |-> FALSE, data |-> <<>>]

\* One caller's call: where it stands, its local variables (name, attempt),
\* what it did (reqs requests, failures failed attempts, the delays it
\* waited) and what its promise settled with.
IdleCall ==
    [pc |-> "idle", name |-> <<>>, attempt |-> 0, failures |-> 0,
     waits |-> <<>>, reqs |-> 0, outcome |-> "none", result |-> None]

Pow2(k) == IF k = 0 THEN 1 ELSE IF k = 1 THEN 2 ELSE IF k = 2 THEN 4 ELSE 8

\* What matchCountryName returns for the clicked names against the
\* service's reference set, computed once.
ClickedMatches == [name \in ClickedNames |-> matchCountryName(name, AllCountries)]

\* The record matchCountryName returns, by its cca3; null for none.
Matched(name, apiCountries) ==
    LET k == IF apiCountries = AllCountries /\ name \in ClickedNames
             THEN ClickedMatches[name]
             ELSE matchCountryName(name, apiCountries)
    IN  IF k = 0 THEN None ELSE apiCountries[k].cca3

\* allCountriesCache && cacheTimestamp && (now - cacheTimestamp) < CACHE_DURATION
IsFreshInclusive(t) ==
    /\ allCountriesCache.set
    /\ cacheTimestamp # 0
    /\ (t - cacheTimestamp) <= CACHE_DURATION

IsFresh(t) ==
    /\ allCountriesCache.set
    /\ cacheTimestamp # 0
    /\ (t - cacheTimestamp) < CACHE_DURATION

\* A body that parses but is not the array of countries, such as the object
\* of an error message: it is truthy and its length is undefined, so
\* matchCountryName goes on to apiCountries.find, which is not a function.
NotAnArray == <<[message |-> "Not Found"]>>

MatchThrows(apiCountries) == apiCountries = NotAnArray

\* What fetchCountryData hands its caller once the last attempt has failed:
\* the outer catch logs and returns null.
OnTotalFailureRethrows(c) == [outcome |-> "rejected", result |-> None]

OnTotalFailure(c) == [outcome |-> "resolved", result |-> None]

\* fetchCountryData(countryName) up to its first await: the answer from the
\* fresh cache (an exception of the matcher goes to the outer catch), or the
\* first request.
Call(c, countryName) ==
    /\ calls[c].pc \in {"idle", "returned"}
    /\ LET entry == [IdleCall EXCEPT !.name = countryName]
       IN  IF IsFresh(now)
           THEN LET out == IF MatchThrows(allCountriesCache.data)
                           THEN OnTotalFailure(c)
                           ELSE [outcome |-> "resolved",
                                 result |-> Matched(countryName, allCountriesCache.data)]
                IN  calls' = [calls EXCEPT ![c] =
                      [entry EXCEPT !.pc = "returned", !.outcome = out.outcome,
                                    !.result = out.result]]
           ELSE /\ calls' = [calls EXCEPT ![c] =
                      [entry EXCEPT !.pc = "fetching", !.reqs = 1]]
    /\ UNCHANGED <<allCountriesCache, cacheTimestamp, now, storedAt>>
    /\ UNCHANGED notFetchVars

\* The response arrives and parses: the cache is replaced and stamped, the
\* name is matched against the new set.
FetchOk(c) ==
    /\ calls[c].pc = "fetching"
    /\ allCountriesCache' = [set |-> TRUE, data |-> AllCountries]
    /\ cacheTimestamp' = now
    /\ storedAt' = now
    /\ calls' = [calls EXCEPT ![c].pc = "returned", ![c].outcome = "resolved",
                              ![c].result = Matched(calls[c].name, AllCountries)]
    /\ UNCHANGED now
    /\ UNCHANGED notFetchVars

\* What a failed attempt leaves in the module's cache: neither the inner
\* catch (lines 242-251) nor the outer catch (255-258) assigns
\* allCountriesCache or cacheTimestamp.
CacheAfterFailureCleared == [cache |-> NoCache, stamp |-> 0]

CacheAfterFailure == [cache |-> allCountriesCache, stamp |-> cacheTimestamp]

\* attempt < maxRetries - 1
WaitsBeforeRetry(attempt) == attempt < maxRetries - 1

\* The request fails (network error, HTTP status, unparsable body): wait and
\* retry, or give up after the last attempt.
FetchFails(c) ==
    /\ calls[c].pc = "fetching"
    /\ IF WaitsBeforeRetry(calls[c].attempt)
       THEN LET delay == Pow2(calls[c].attempt) * 1000
            IN  calls' = [calls EXCEPT ![c].pc = "backoff",
                                       ![c].failures = @ + 1,
                                       ![c].waits = Append(@, delay)]
       ELSE LET out == OnTotalFailure(c)
            IN  calls' = [calls EXCEPT ![c].pc = "returned",
                                       ![c].failures = @ + 1,
                                       ![c].outcome = out.outcome,
                                       ![c].result = out.result]
    /\ allCountriesCache' = CacheAfterFailure.cache
    /\ cacheTimestamp' = CacheAfterFailure.stamp
    /\ UNCHANGED <<now, storedAt>>
    /\ UNCHANGED notFetchVars

\* The response arrives and parses to a body that is not the array: the
\* cache is replaced and stamped (lines 237-238), then matchCountryName
\* throws inside the attempt's try and the inner catch takes it as a failed
\* attempt.
FetchBodyNotArray(c) ==
    /\ calls[c].pc = "fetching"
    /\ allCountriesCache' = [set |-> TRUE, data |-> NotAnArray]
    /\ cacheTimestamp' = now
    /\ storedAt' = now
    /\ IF WaitsBeforeRetry(calls[c].attempt)
       THEN LET delay == Pow2(calls[c].attempt) * 1000
            IN  calls' = [calls EXCEPT ![c].pc = "backoff",
                                       ![c].failures = @ + 1,
                                       ![c].waits = Append(@, delay)]
       ELSE LET out == OnTotalFailure(c)
            IN  calls' = [calls EXCEPT ![c].pc = "returned",
                                       ![c].failures = @ + 1,
                                       ![c].outcome = out.outcome,
                                       ![c].result = out.result]
    /\ UNCHANGED now
    /\ UNCHANGED notFetchVars

\* The backoff timer of the call fires: the next attempt's request goes out.
BackoffElapsed(c) ==
    /\ calls[c].pc = "backoff"
    /\ calls' = [calls EXCEPT ![c].pc = "fetching", ![c].attempt = @ + 1,
                              ![c].reqs = @ + 1]
    /\ UNCHANGED <<allCountriesCache, cacheTimestamp, now, storedAt>>
    /\ UNCHANGED notFetchVars

\* Ten minutes pass.
Elapse ==
    /\ now + ElapseStep <= StartTime + MaxElapses * ElapseStep
    /\ now' = now + ElapseStep
    /\ UNCHANGED <<allCountriesCache, cacheTimestamp, calls, storedAt>>
    /\ UNCHANGED notFetchVars

InitFetch ==
    /\ allCountriesCache = NoCache
    /\ cacheTimestamp = 0
    /\ now = StartTime
    /\ calls = [c \in Callers |-> IdleCall]
    /\ storedAt = 0

NextFetch ==
    \/ \E c \in Callers, countryName \in ClickedNames : Call(c, countryName)
    \/ \E c \in Callers : FetchOk(c)
    \/ \E c \in Callers : FetchFails(c)
    \/ \E c \in Callers : BackoffElapsed(c)
    \/ Elapse

NextFetchOutcomes ==
    \/ \E c \in Callers, countryName \in ClickedNames : Call(c, countryName)
    \/ \E c \in Callers : FetchOk(c)
    \/ \E c \in Callers : FetchBodyNotArray(c)
    \/ \E c \in Callers : FetchFails(c)
    \/ \E c \in Callers : BackoffElapsed(c)

\* The state before the boundary dataset has arrived: no feature, no run.
InitEnrichIdle ==
    /\ features = <<>>
    /\ flagLookupCache = NoFlagLookup
    /\ flagMap = EmptyFlagMap
    /\ index = 0
    /\ sliceStart = 0
    /\ sliceEnd = 0
    /\ unit = <<>>
    /\ flagColorCache = [u \in {} |-> NoResult]
    /\ imageLoads = [u \in Urls |-> 0]
    /\ enrichPc = "lookup"
    /\ publishes = 0
    /\ published = <<>>

\* No call of extractFlagColors under way.
InitExtractIdle == extracts = <<>>

(***************************************************************************)
(* colorUtils.js: extractFlagColors (lines 100-129) under its callers.      *)
(***************************************************************************)
Extractors == 1..MaxExtractors

\* The image references and fallback colours the callers pass.
FlagUrls == Urls \cup {None}
FallbackColors == {"#888888", fallbackAccent}

\* One call: where it stands, its arguments, whether it called loadImage,
\* whether the load or the sampling failed, and what its promise settled
\* with. MaxExtractors calls are made, in any order and overlap.
IdleExtract ==
    [pc |-> "idle", url |-> None, fallbackColor |-> None, loaded |-> FALSE,
     failed |-> FALSE, outcome |-> "none", result |-> NoResult]

\* flagColorCache.set(flagUrl, result)
CachePut(cache, flagUrl, result) ==
    [u \in DOMAIN cache \cup {flagUrl} |-> IF u = flagUrl THEN result ELSE cache[u]]

\* extractFlagColors up to its first await: the answer for an absent
\* reference, the cached answer, or the start of the image load.
ExtractEntryCachesAbsent(flagUrl, fallbackColor, cache) ==
    IF flagUrl = None
    THEN [pc |-> "returned", result |-> ExtractFallback(fallbackColor),
          cache |-> CachePut(cache, flagUrl, ExtractFallback(fallbackColor))]
    ELSE IF flagUrl \in DOMAIN cache
    THEN [pc |-> "returned", result |-> cache[flagUrl], cache |-> cache]
    ELSE [pc |-> "loading", result |-> NoResult, cache |-> cache]

ExtractEntry(flagUrl, fallbackColor, cache) ==
    IF flagUrl = None
    THEN [pc |-> "returned", result |-> ExtractFallback(fallbackColor), cache |-> cache]
    ELSE IF flagUrl \in DOMAIN cache
    THEN [pc |-> "returned", result |-> cache[flagUrl], cache |-> cache]
    ELSE [pc |-> "loading", result |-> NoResult, cache |-> cache]

\* extractFlagColors(flagUrl, fallbackColor) is entered as call c and runs up
\* to its return or its await.
ExtractCall(c, flagUrl, fallbackColor) ==
    /\ extracts[c].pc = "idle"
    /\ LET entry == ExtractEntry(flagUrl, fallbackColor, flagColorCache)
           loads == entry.pc = "loading"
       IN  /\ extracts' = [extracts EXCEPT ![c] =
                  [IdleExtract EXCEPT !.pc = entry.pc, !.url = flagUrl,
                                      !.fallbackColor = fallbackColor,
                                      !.loaded = loads,
                                      !.outcome = IF loads THEN "none" ELSE "resolved",
                                      !.result = entry.result]]
           /\ flagColorCache' = entry.cache
           /\ imageLoads' = [u \in Urls |->
                  IF loads /\ u = flagUrl THEN imageLoads[u] + 1 ELSE imageLoads[u]]
    /\ UNCHANGED <<features, flagLookupCache, flagMap, index, sliceStart, sliceEnd,
                   unit, enrichPc, publishes, published>>
    /\ UNCHANGED notExtractVars

\* Call c of extractFlagColors(flagUrl, fallbackColor) is made by a caller
\* other than getCountryPalette.
Extract(c, flagUrl, fallbackColor) ==
    /\ ExtractCall(c, flagUrl, fallbackColor)
    /\ UNCHANGED paletteVars

\* The image loads and is sampled: the result is cached and returned.
ExtractLoaded(c) ==
    /\ extracts[c].pc = "loading"
    /\ LET result == ExtractSuccess(extracts[c].url, extracts[c].fallbackColor)
       IN  /\ flagColorCache' = CachePut(flagColorCache, extracts[c].url, result)
           /\ extracts' = [extracts EXCEPT ![c].pc = "returned",
                                           ![c].outcome = "resolved",
                                           ![c].result = result]
    /\ UNCHANGED <<features, flagLookupCache, flagMap, index, sliceStart, sliceEnd,
                   unit, imageLoads, enrichPc, publishes, published>>
    /\ UNCHANGED <<notExtractVars, paletteVars>>

\* What the catch of extractFlagColors does with the cache (line 126).
CacheAfterCatchNoStore(cache, flagUrl, result) == cache

CacheAfterCatch(cache, flagUrl, result) == CachePut(cache, flagUrl, result)

\* The image fails to load, or its pixels cannot be read: the catch builds
\* the fallback result, caches it and returns it.
ExtractFailed(c) ==
    /\ extracts[c].pc = "loading"
    /\ LET result == ExtractFallback(extracts[c].fallbackColor)
       IN  /\ flagColorCache' = CacheAfterCatch(flagColorCache, extracts[c].url, result)
           /\ extracts' = [extracts EXCEPT ![c].pc = "returned",
                                           ![c].failed = TRUE,
                                           ![c].outcome = "resolved",
                                           ![c].result = result]
    /\ UNCHANGED <<features, flagLookupCache, flagMap, index, sliceStart, sliceEnd,
                   unit, imageLoads, enrichPc, publishes, published>>
    /\ UNCHANGED <<notExtractVars, paletteVars>>

InitExtract == extracts = [c \in Extractors |-> IdleExtract]

NextExtract ==
    \/ \E c \in Extractors, flagUrl \in FlagUrls, fallbackColor \in FallbackColors :
          Extract(c, flagUrl, fallbackColor)
    \/ \E c \in Extractors : ExtractLoaded(c)
    \/ \E c \in Extractors : ExtractFailed(c)

(***************************************************************************)
(* colorUtils.js: clamp255, hexToRgb, rgbToHex, lighten, darken, mix        *)
(* (lines 26-79). A string is a sequence of one-character strings; an       *)
(* argument is a record that says whether a string was given (undefined and *)
(* null are not). A number is carried in hundredths, which is exact for     *)
(* whole channels, the amount 0.18 and the ratio 0.35.                      *)
(***************************************************************************)
HexLower == <<"0","1","2","3","4","5","6","7","8","9","a","b","c","d","e","f">>

IsHexDigit(c) == LowerChar(c) \in Range(HexLower)

HexValue(c) == (CHOOSE k \in 1..16 : HexLower[k] = LowerChar(c)) - 1

UpperOf == [c \in Range(LowerLetters) |-> UpperLetters[CHOOSE k \in 1..26 : LowerLetters[k] = c]]

UpperChar(c) == IF c \in Range(LowerLetters) THEN UpperOf[c] ELSE c

\* String.prototype.toUpperCase
UpperCase(str) == [k \in 1..Len(str) |-> UpperChar(str[k])]

Given(str) == [given |-> TRUE, str |-> str]
Undefined == [given |-> FALSE, str |-> <<>>]

\* What a helper gives back: a value, or a TypeError raised to its caller.
Value(str) == [kind |-> "value", str |-> str]
Throws == [kind |-> "throws", str |-> <<>>]
NoValue == [kind |-> "none", str |-> <<>>]

\* What hexToRgb gives back: an {r, g, b} object, null, or a TypeError.
Rgb(r, g, b) == [kind |-> "rgb", r |-> r, g |-> g, b |-> b]
RgbNull == [kind |-> "null", r |-> 0, g |-> 0, b |-> 0]
RgbThrows == [kind |-> "throws", r |-> 0, g |-> 0, b |-> 0]
NoRgb == [kind |-> "none", r |-> 0, g |-> 0, b |-> 0]

\* Math.max(0, Math.min(255, v)), v in hundredths
clamp255(v) == IF v < 0 THEN 0 ELSE IF v > 25500 THEN 25500 ELSE v

\* .replace('#', ''): a string pattern replaces its first occurrence only
RECURSIVE RemoveFirstHash(_)
RemoveFirstHash(str) ==
    IF str = <<>> THEN <<>>
    ELSE IF Head(str) = "#" THEN Tail(str)
    ELSE <<Head(str)>> \o RemoveFirstHash(Tail(str))

\* parseInt(clean, 16) reads the longest prefix of hex digits and is NaN when
\* there is none (the strings of the model carry no sign and no 0x prefix).
RECURSIVE HexPrefixLen(_)
HexPrefixLen(str) ==
    IF str = <<>> \/ ~IsHexDigit(Head(str)) THEN 0 ELSE 1 + HexPrefixLen(Tail(str))

RECURSIVE HexNumber(_)
HexNumber(digits) ==
    IF digits = <<>> THEN 0
    ELSE 16 * HexNumber(SubSeq(digits, 1, Len(digits) - 1)) + HexValue(digits[Len(digits)])

parseInt16(str) ==
    LET n == HexPrefixLen(str)
    IN  [nan |-> n = 0, num |-> HexNumber(SubSeq(str, 1, n))]

\* hexToRgb (lines 29-38). The shifts and masks turn NaN into 0.
hexToRgb(hex) ==
    IF ~hex.given THEN RgbThrows
    ELSE LET clean == trim(RemoveFirstHash(hex.str))
         IN  IF Len(clean) # 6 THEN RgbNull
             ELSE LET parsed == parseInt16(clean)
                      num == IF parsed.nan THEN 0 ELSE parsed.num
                  IN  Rgb(100 * ((num \div 65536) % 256),
                          100 * ((num \div 256) % 256),
                          100 * (num % 256))

\* Number.prototype.toString(16) of a clamped channel: the whole part, and
\* for a channel that is not whole a point and the fraction. The fraction is
\* written to two digits here; the program writes it to the precision of the
\* double.
WholeHex(n) ==
    IF n < 16 THEN <<HexLower[n + 1]>>
    ELSE <<HexLower[(n \div 16) + 1], HexLower[(n % 16) + 1]>>

FractionHex(f) ==
    IF f = 0 THEN <<>>
    ELSE LET d1 == (16 * f) \div 100
             rest == (16 * f) % 100
         IN  IF rest = 0 THEN <<".", HexLower[d1 + 1]>>
             ELSE <<".", HexLower[d1 + 1], HexLower[((16 * rest) \div 100) + 1]>>

NumberToHex(v) == WholeHex(v \div 100) \o FractionHex(v % 100)

\* .padStart(2, '0')
padStart2(str) == IF Len(str) < 2 THEN <<"0">> \o str ELSE str

ChannelHex(v) == padStart2(NumberToHex(clamp255(v)))

\* rgbToHex (lines 41-44)
rgbToHexNoUpperCase(c) ==
    <<"#">> \o ChannelHex(c.r) \o ChannelHex(c.g) \o ChannelHex(c.b)

rgbToHex(c) ==
    UpperCase(<<"#">> \o ChannelHex(c.r) \o ChannelHex(c.g) \o ChannelHex(c.b))

\* lighten (lines 47-55), amount in hundredths
lighten(color, amount) ==
    LET rgb == hexToRgb(color)
    IN  IF rgb.kind = "throws" THEN Throws
        ELSE IF rgb.kind = "null" THEN Value(color.str)
        ELSE Value(rgbToHex([r |-> rgb.r + ((25500 - rgb.r) * amount) \div 100,
                             g |-> rgb.g + ((25500 - rgb.g) * amount) \div 100,
                             b |-> rgb.b + ((25500 - rgb.b) * amount) \div 100]))

\* darken (lines 58-66)
darken(color, amount) ==
    LET rgb == hexToRgb(color)
    IN  IF rgb.kind = "throws" THEN Throws
        ELSE IF rgb.kind = "null" THEN Value(color.str)
        ELSE Value(rgbToHex([r |-> (rgb.r * (100 - amount)) \div 100,
                             g |-> (rgb.g * (100 - amount)) \div 100,
                             b |-> (rgb.b * (100 - amount)) \div 100]))

\* mix (lines 69-79): `colorA || colorB` passes over the empty string
mix(colourA, colourB, ratio) ==
    LET a == hexToRgb(colourA)
        b == IF a.kind = "throws" THEN RgbThrows ELSE hexToRgb(colourB)
        t == IF ratio < 0 THEN 0 ELSE IF ratio > 100 THEN 100 ELSE ratio
    IN  IF a.kind = "throws" \/ b.kind = "throws" THEN Throws
        ELSE IF a.kind = "null" \/ b.kind = "null"
        THEN Value(IF colourA.str # <<>> THEN colourA.str ELSE colourB.str)
        ELSE Value(rgbToHex([r |-> (a.r * (100 - t) + b.r * t) \div 100,
                             g |-> (a.g * (100 - t) + b.g * t) \div 100,
                             b |-> (a.b * (100 - t) + b.b * t) \div 100]))

\* The colour strings the helpers are called with: the well-formed strings
\* over a sample of the hex digits in both letter cases, and strings that
\* are not colours.
HexSampleDigits == {"0", "9", "a", "F"}

WellFormedArgs == {Given(<<"#">> \o d) : d \in [1..6 -> HexSampleDigits]}

MalformedArgs ==
    {Undefined,
     Given(<<>>),
     Given(<<"#">>),
     Given(<<"#","1","2","3","4","5">>),
     Given(<<"#","1","2","3","4","5","6","7">>),
     Given(<<"G","G","G","G","G","G">>),
     Given(<<"#","1","2","3","4","5","G">>),
     Given(<<"#","z","z","0","0","0","0">>),
     Given(<<"r","e","d">>)}

AccentArgs == WellFormedArgs \cup MalformedArgs

BaseArgs ==
    {Given(<<"#","0","0","0","0","0","0">>),
     Given(<<"#","F","4","C","E","2","9">>),
     Given(<<"#","b","1","c","4","b","b">>),
     Given(<<"#","1","2">>),
     Undefined}

HexIdle ==
    [op |-> "idle", parsed |-> NoRgb, rendered |-> NoValue,
     accentLight |-> NoValue, accentDark |-> NoValue, muted |-> NoValue]

\* hexToRgb(hexA)
ParseHex ==
    /\ hexOut.op = "idle"
    /\ hexOut' = [hexOut EXCEPT !.op = "hexToRgb", !.parsed = hexToRgb(hexA)]
    /\ UNCHANGED <<hexA, hexB>>
    /\ UNCHANGED notHexVars

\* rgbToHex on the colour hexToRgb gave
RenderHex ==
    /\ hexOut.op = "hexToRgb"
    /\ hexOut.parsed.kind = "rgb"
    /\ hexOut' = [hexOut EXCEPT !.op = "rgbToHex",
                                !.rendered = Value(rgbToHex(hexOut.parsed))]
    /\ UNCHANGED <<hexA, hexB>>
    /\ UNCHANGED notHexVars

\* getCountryPalette's derived colours (lines 206-213) for accent hexA and
\* base hexB; a TypeError of the first ends the evaluation.
DerivePalette ==
    /\ hexOut.op = "idle"
    /\ LET light == lighten(hexA, 18)
           dark == IF light.kind = "throws" THEN NoValue ELSE darken(hexA, 18)
           muted == IF light.kind = "throws" THEN NoValue ELSE mix(hexB, hexA, 35)
       IN  hexOut' = [hexOut EXCEPT !.op = "derive", !.accentLight = light,
                                    !.accentDark = dark, !.muted = muted]
    /\ UNCHANGED <<hexA, hexB>>
    /\ UNCHANGED notHexVars

InitHex ==
    /\ hexA \in AccentArgs
    /\ hexB \in BaseArgs
    /\ hexOut = HexIdle

NextHex == ParseHex \/ RenderHex \/ DerivePalette

(***************************************************************************)
(* colorUtils.js: quantize (lines 94-97) and colorDistance (lines 188-193). *)
(* Channels are in hundredths, as above. colorDistance is carried as the    *)
(* square of the distance (in units of 10^-4): the square root is           *)
(* increasing, so two distances are equal, or one exceeds 40, exactly when  *)
(* their squares are equal, or the square exceeds 1600.                     *)
(***************************************************************************)
\* q = v => Math.floor(v / step) * step + step / 2, step a whole number
QuantizeChannelUp(v, step) == ((v \div (100 * step)) + 1) * (100 * step)

QuantizeChannel(v, step) == (v \div (100 * step)) * (100 * step) + 50 * step

quantize(color, step) ==
    Rgb(QuantizeChannel(color.r, step),
        QuantizeChannel(color.g, step),
        QuantizeChannel(color.b, step))

colorDistanceUnsquared(a, b) ==
    LET dr == a.r - b.r
        dg == a.g - b.g
        db == a.b - b.b
    IN  dr + dg * dg + db * db

colorDistance(a, b) ==
    LET dr == a.r - b.r
        dg == a.g - b.g
        db == a.b - b.b
    IN  dr * dr + dg * dg + db * db

\* The colours and steps the two helpers are called with; 32 is the default
\* step.
ChannelSamples == {0, 3100, 3200, 12800, 24000, 25500}

Colours == {Rgb(r, g, b) : r, g, b \in ChannelSamples}

OtherColours ==
    {Rgb(0, 0, 0), Rgb(25500, 25500, 25500), Rgb(20800, 4800, 4800),
     Rgb(24000, 4800, 4800), Rgb(3200, 12800, 24000), Rgb(1600, 1650, 1700)}

Steps == {1, 2, 3, 7, 32, 33, 255, 256}

MathIdle == [op |-> "idle", once |-> NoRgb, twice |-> NoRgb, ab |-> 0, ba |-> 0, aa |-> 0]

\* quantize(rgbA, quantStep)
Quantize ==
    /\ mathOut.op = "idle"
    /\ mathOut' = [mathOut EXCEPT !.op = "quantize", !.once = quantize(rgbA, quantStep)]
    /\ UNCHANGED <<rgbA, rgbB, quantStep>>
    /\ UNCHANGED notMathVars

\* quantize applied to the colour quantize gave
Requantize ==
    /\ mathOut.op = "quantize"
    /\ mathOut' = [mathOut EXCEPT !.op = "requantize",
                                  !.twice = quantize(mathOut.once, quantStep)]
    /\ UNCHANGED <<rgbA, rgbB, quantStep>>
    /\ UNCHANGED notMathVars

\* colorDistance on the two colours, in both orders, and on the first alone
Measure ==
    /\ mathOut.op = "idle"
    /\ mathOut' = [mathOut EXCEPT !.op = "colorDistance",
                                  !.ab = colorDistance(rgbA, rgbB),
                                  !.ba = colorDistance(rgbB, rgbA),
                                  !.aa = colorDistance(rgbA, rgbA)]
    /\ UNCHANGED <<rgbA, rgbB, quantStep>>
    /\ UNCHANGED notMathVars

InitMath ==
    /\ rgbA \in Colours
    /\ rgbB \in OtherColours
    /\ quantStep \in Steps
    /\ mathOut = MathIdle

NextMath == Quantize \/ Requantize \/ Measure

(***************************************************************************)
(* colorUtils.js: sampleImageColors' scan and ranking (lines 158-185) and   *)
(* the choice of primary and secondary in extractFlagColors (lines          *)
(* 113-119). getLuma is carried in units of 10^-6 and getSaturation in      *)
(* hundredths rounded down, which decide the same comparisons with 20, 235  *)
(* and 0.15.                                                                *)
(***************************************************************************)
Max3(x, y, z) == IF x >= y /\ x >= z THEN x ELSE IF y >= z THEN y ELSE z
Min3(x, y, z) == IF x <= y /\ x <= z THEN x ELSE IF y <= z THEN y ELSE z

\* getLuma (lines 82-84)
getLuma(c) == 2126 * c.r + 7152 * c.g + 722 * c.b

\* getSaturation (lines 86-91)
getSaturation(c) ==
    LET max == Max3(c.r, c.g, c.b)
        min == Min3(c.r, c.g, c.b)
    IN  IF max = 0 THEN 0 ELSE (100 * (max - min)) \div max

\* The three `continue` of the scan loop (lines 166-171).
IsSkipped(p) ==
    \/ p.a < 200
    \/ getSaturation(p) < 15
    \/ getLuma(p) < 20 * 1000000
    \/ getLuma(p) > 235 * 1000000

\* `${q.r}|${q.g}|${q.b}` and its reading back with split('|').map(Number):
\* the key is the triple of the written numbers.
BucketKey(q) == <<q.r \div 100, q.g \div 100, q.b \div 100>>

KeyColour(key) == Rgb(100 * key[1], 100 * key[2], 100 * key[3])

\* buckets.set(key, (buckets.get(key) || 0) + 1): a Map keeps its keys in the
\* order of their first insertion.
BucketsSet(map, key) ==
    IF \E k \in 1..Len(map) : map[k].key = key
    THEN [k \in 1..Len(map) |->
             IF map[k].key = key THEN [map[k] EXCEPT !.count = @ + 1] ELSE map[k]]
    ELSE Append(map, [key |-> key, count |-> 1])

\* .sort((a, b) => b[1] - a[1]): Array.prototype.sort is stable, an entry
\* goes behind the entries of greater or equal count that came before it.
RECURSIVE InsertByCount(_, _)
InsertByCount(sorted, e) ==
    IF sorted = <<>> THEN <<e>>
    ELSE IF Head(sorted).count >= e.count
    THEN <<Head(sorted)>> \o InsertByCount(Tail(sorted), e)
    ELSE <<e>> \o sorted

RECURSIVE SortByCount(_)
SortByCount(entries) ==
    IF entries = <<>> THEN <<>>
    ELSE InsertByCount(SortByCount(SubSeq(entries, 1, Len(entries) - 1)),
                       entries[Len(entries)])

\* sorted.slice(0, 6)
KeepAll(sorted) == sorted

KeepTop(sorted) == SubSeq(sorted, 1, Min(6, Len(sorted)))

\* The `colors` sampleImageColors returns for the buckets of a scan.
RankedColors(map) ==
    LET sorted == SortByCount(map)
    IN  KeepTop([k \in 1..Len(sorted) |-> KeyColour(sorted[k].key)])

\* c => colorDistance(c, primary) > 40 (line 114)
IsFarFromAny(c, primary) == colorDistance(c, primary) > 0

IsFarFrom(c, primary) == colorDistance(c, primary) > 40 * 40 * 10000

\* colors.find(...) || null
FindFarLast(colors, primary) ==
    LET far == {k \in 1..Len(colors) : IsFarFrom(colors[k], primary)}
    IN  IF far = {} THEN RgbNull
        ELSE colors[CHOOSE k \in far : \A j \in far : j <= k]

RECURSIVE FindFar(_, _)
FindFar(colors, primary) ==
    IF colors = <<>> THEN RgbNull
    ELSE IF IsFarFrom(Head(colors), primary) THEN Head(colors)
    ELSE FindFar(Tail(colors), primary)

\* Lines 113-119: the result built on the ranked colours.
PickResult(colors, fallbackColor) ==
    LET parsed == hexToRgb(fallbackColor)
        primary == IF colors # <<>> THEN colors[1]
                   ELSE IF parsed.kind = "rgb" THEN parsed
                   ELSE Rgb(13600, 13600, 13600)
        secondary == FindFar(colors, primary)
    IN  [primary   |-> Value(rgbToHex(primary)),
         secondary |-> IF secondary.kind = "rgb" THEN Value(rgbToHex(secondary))
                       ELSE NoValue]

\* The images of the model. The pixel at position i is one of three: a
\* swatch colour not seen before it; the colour of the position before it,
\* slightly off (it falls in the same bucket) and at the alpha threshold; or
\* a pixel one of the filters skips (transparent, grey, near-black,
\* near-white in turn). Swatches 1, 2 and 3 fall in neighbouring buckets.
Swatches ==
    << <<200, 40, 40>>, <<230, 40, 40>>, <<200, 70, 40>>, <<40, 40, 200>>,
       <<40, 200, 40>>, <<200, 200, 40>>, <<40, 200, 200>>, <<200, 40, 200>>,
       <<120, 40, 200>>, <<40, 120, 200>>, <<120, 200, 40>>, <<200, 120, 40>> >>

Pixel(r, g, b, a) == [r |-> 100 * r, g |-> 100 * g, b |-> 100 * b, a |-> a]

SwatchAt(i) == Swatches[((i - 1) % Len(Swatches)) + 1]

FreshPixel(i) == Pixel(SwatchAt(i)[1], SwatchAt(i)[2], SwatchAt(i)[3], 255)

AgainPixel(i) ==
    Pixel(SwatchAt(i - 1)[1] + 5, SwatchAt(i - 1)[2] + 5, SwatchAt(i - 1)[3] + 5, 200)

SkippedPixels ==
    << Pixel(200, 40, 40, 199), Pixel(128, 128, 128, 255),
       Pixel(30, 0, 0, 255), Pixel(255, 255, 200, 255) >>

PixelsAt(i) ==
    {FreshPixel(i), SkippedPixels[((i - 1) % 4) + 1]}
        \cup (IF i > 1 THEN {AgainPixel(i)} ELSE {})

\* The fallback colours extractFlagColors is called with.
SampleFallbacks ==
    {Given(<<"#","8","8","8","8","8","8">>), Given(<<"#","C","7","7","4","4","2">>),
     Given(<<"r","e","d">>)}

NoPick == [primary |-> NoValue, secondary |-> NoValue]

RankingIdle == [stage |-> "scanning", colors |-> <<>>, result |-> NoPick]

\* One turn of the scan loop on pixel p.
ScanPixel(p) ==
    /\ ranking.stage = "scanning"
    /\ Len(scanned) < MaxPixels
    /\ p \in PixelsAt(Len(scanned) + 1)
    /\ scanned' = Append(scanned, p)
    /\ buckets' = IF IsSkipped(p) THEN buckets
                  ELSE BucketsSet(buckets, BucketKey(quantize(p, 32)))
    /\ UNCHANGED ranking
    /\ UNCHANGED notSampleVars

\* The image data is exhausted: sort, map, slice, return.
RankBuckets ==
    /\ ranking.stage = "scanning"
    /\ ranking' = [ranking EXCEPT !.stage = "ranked", !.colors = RankedColors(buckets)]
    /\ UNCHANGED <<buckets, scanned>>
    /\ UNCHANGED notSampleVars

\* extractFlagColors builds its result on the colours.
PickColors(fallbackColor) ==
    /\ ranking.stage = "ranked"
    /\ ranking' = [ranking EXCEPT !.stage = "picked",
                                  !.result = PickResult(ranking.colors, fallbackColor)]
    /\ UNCHANGED <<buckets, scanned>>
    /\ UNCHANGED notSampleVars

InitSample ==
    /\ buckets = <<>>
    /\ scanned = <<>>
    /\ ranking = RankingIdle

NextSample ==
    \/ \E i \in 1..MaxPixels : \E p \in PixelsAt(i) : ScanPixel(p)
    \/ RankBuckets
    \/ \E fallbackColor \in SampleFallbacks : PickColors(fallbackColor)

(***************************************************************************)
(* colorUtils.js: getCountryPalette (lines 196-216) over extractFlagColors. *)
(* Call c of getCountryPalette makes call c of extractFlagColors.           *)
(***************************************************************************)
CONTINENT_BASE_COLORS ==
    [Africa |-> "#F4CE29", Americas |-> "#32A189", Asia |-> "#FF6B6B",
     Europe |-> "#8BBED8", Oceania |-> "#C77442", Antarctic |-> "#7C94A4",
     default |-> "#B1C4BB"]

\* The countries and options getCountryPalette is called with: None stands
\* for a field that is absent, and the last country for no country at all.
Country(region, flag, flagUrl, svg, png) ==
    [region |-> region, flag |-> flag, flagUrl |-> flagUrl,
     flags |-> [svg |-> svg, png |-> png]]

PaletteCountries ==
    {Country("Europe", "fr.svg", "es.svg", None, None),
     Country("Africa", None, None, "es.svg", "de.svg"),
     Country("Atlantis", None, None, None, "de.svg"),
     Country(None, None, "de.svg", None, None),
     Country(None, None, None, None, None)}

PaletteOptions == {[baseColor |-> None], [baseColor |-> "#123456"]}

\* baseColor = CONTINENT_BASE_COLORS[country?.region] || CONTINENT_BASE_COLORS.default
\* unless options gives one (lines 197-200)
BaseColorIgnoringOptions(country, options) ==
    IF country.region \in DOMAIN CONTINENT_BASE_COLORS
    THEN CONTINENT_BASE_COLORS[country.region]
    ELSE CONTINENT_BASE_COLORS.default

BaseColorOf(country, options) ==
    IF options.baseColor # None THEN options.baseColor
    ELSE IF country.region \in DOMAIN CONTINENT_BASE_COLORS
    THEN CONTINENT_BASE_COLORS[country.region]
    ELSE CONTINENT_BASE_COLORS.default

\* country?.flag || country?.flagUrl || country?.flags?.svg || country?.flags?.png
FlagUrlOf(country) ==
    IF country.flag # None THEN country.flag
    ELSE IF country.flagUrl # None THEN country.flagUrl
    ELSE IF country.flags.svg # None THEN country.flags.svg
    ELSE country.flags.png

NoCountry == Country(None, None, None, None, None)

IdlePalette ==
    [pc |-> "idle", country |-> NoCountry, options |-> [baseColor |-> None],
     baseColor |-> None, palette |-> NoPalette]

\* getCountryPalette(country, options) up to its await: the base colour is
\* resolved and extractFlagColors is entered with fallbackAccent.
GetCountryPalette(c, country, options) ==
    /\ palettes[c].pc = "idle"
    /\ ExtractCall(c, FlagUrlOf(country), fallbackAccent)
    /\ palettes' = [palettes EXCEPT ![c] =
           [IdlePalette EXCEPT !.pc = "awaiting", !.country = country,
                               !.options = options,
                               !.baseColor = BaseColorOf(country, options)]]

\* extractFlagColors has returned to call c: the palette is built (lines
\* 204-215).
PaletteBuilt(c) ==
    /\ palettes[c].pc = "awaiting"
    /\ extracts[c].pc = "returned"
    /\ palettes' = [palettes EXCEPT ![c].pc = "returned",
                                    ![c].palette = BuildPalette(extracts[c].result,
                                                                palettes[c].baseColor)]
    /\ UNCHANGED <<enrichVars, extractVars>>
    /\ UNCHANGED notExtractVars

InitPalette == palettes = [c \in Extractors |-> IdlePalette]

NextPalette ==
    \/ \E c \in Extractors, country \in PaletteCountries, options \in PaletteOptions :
          GetCountryPalette(c, country, options)
    \/ \E c \in Extractors : ExtractLoaded(c)
    \/ \E c \in Extractors : ExtractFailed(c)
    \/ \E c \in Extractors : PaletteBuilt(c)

(***************************************************************************)
(* CapitalService.js: loadCapitalData (lines 49-99) under its callers. A    *)
(* load is one run of the async function of lines 61-96: its fetch call is  *)
(* the network request, made when the load starts.                          *)
(***************************************************************************)
\* The cca2 codes of the response, and those a failing forEach has stored
\* before it raises.
CapitalCodes == {"FR", "NG", "US"}
StoredBeforeThrow == {"FR"}

\* Where a load can fail: the fetch rejects, the response is not ok, json()
\* rejects, the forEach over the body raises.
FetchCauses == {"network", "http"}
BodyCauses == {"json", "populate"}

NoError == [load |-> 0, cause |-> "none"]

NullPromise == [set |-> FALSE, load |-> 0]

IdleCapitalCall == [pc |-> "idle", load |-> 0, outcome |-> "none", error |-> NoError]

\* if (loadPromise) (line 56)
HasPromiseNever(promise) == FALSE

HasPromise(promise) == promise.set

\* loadPromise after the catch of a load (line 93)
PromiseAfterFailureKept(promise) == promise

PromiseAfterFailure(promise) == NullPromise

\* A caller calls loadCapitalData(): the cache if isLoaded, the promise of
\* the load under way if there is one, else a new load.
LoadCapitalData(c) ==
    /\ capitalCalls[c].pc \in {"idle", "returned"}
    /\ IF isLoaded
       THEN /\ capitalCalls' = [capitalCalls EXCEPT ![c] =
                   [IdleCapitalCall EXCEPT !.pc = "returned", !.outcome = "resolved"]]
            /\ UNCHANGED <<loadPromise, capitalLoads>>
       ELSE IF HasPromise(loadPromise)
       THEN /\ capitalCalls' = [capitalCalls EXCEPT ![c] =
                   [IdleCapitalCall EXCEPT !.pc = "waiting", !.load = loadPromise.load]]
            /\ UNCHANGED <<loadPromise, capitalLoads>>
       ELSE /\ Len(capitalLoads) < MaxLoads
            /\ capitalLoads' = Append(capitalLoads, [stage |-> "fetch", error |-> NoError])
            /\ loadPromise' = [set |-> TRUE, load |-> Len(capitalLoads) + 1]
            /\ capitalCalls' = [capitalCalls EXCEPT ![c] =
                   [IdleCapitalCall EXCEPT !.pc = "waiting",
                                           !.load = Len(capitalLoads) + 1]]
    /\ UNCHANGED <<isLoaded, capitalCache>>
    /\ UNCHANGED notCapitalVars

\* The fetch of load l resolves with an ok response; the load awaits json().
ResponseArrives(l) ==
    /\ capitalLoads[l].stage = "fetch"
    /\ capitalLoads' = [capitalLoads EXCEPT ![l].stage = "json"]
    /\ UNCHANGED <<isLoaded, loadPromise, capitalCache, capitalCalls>>
    /\ UNCHANGED notCapitalVars

\* The body of load l arrives: the cache is populated, isLoaded is set.
CapitalLoaded(l) ==
    /\ capitalLoads[l].stage = "json"
    /\ capitalCache' = capitalCache \cup CapitalCodes
    /\ isLoaded' = TRUE
    /\ capitalLoads' = [capitalLoads EXCEPT ![l].stage = "loaded"]
    /\ UNCHANGED <<loadPromise, capitalCalls>>
    /\ UNCHANGED notCapitalVars

\* Load l fails: the catch clears loadPromise and rethrows.
CapitalLoadFails(l, cause) ==
    /\ \/ capitalLoads[l].stage = "fetch" /\ cause \in FetchCauses
       \/ capitalLoads[l].stage = "json" /\ cause \in BodyCauses
    /\ capitalCache' = IF cause = "populate" THEN capitalCache \cup StoredBeforeThrow
                       ELSE capitalCache
    /\ loadPromise' = PromiseAfterFailure(loadPromise)
    /\ capitalLoads' = [capitalLoads EXCEPT ![l] =
           [stage |-> "failed", error |-> [load |-> l, cause |-> cause]]]
    /\ UNCHANGED <<isLoaded, capitalCalls>>
    /\ UNCHANGED notCapitalVars

\* The promise a caller got follows the load it adopted.
CapitalCallSettles(c) ==
    /\ capitalCalls[c].pc = "waiting"
    /\ LET load == capitalLoads[capitalCalls[c].load]
       IN  /\ load.stage \in {"loaded", "failed"}
           /\ capitalCalls' = [capitalCalls EXCEPT
                  ![c].pc = "returned",
                  ![c].outcome = IF load.stage = "loaded" THEN "resolved" ELSE "rejected",
                  ![c].error = load.error]
    /\ UNCHANGED <<isLoaded, loadPromise, capitalCache, capitalLoads>>
    /\ UNCHANGED notCapitalVars

InitCapital ==
    /\ isLoaded = FALSE
    /\ loadPromise = NullPromise
    /\ capitalCache = {}
    /\ capitalLoads = <<>>
    /\ capitalCalls = [c \in Callers |-> IdleCapitalCall]

NextCapital ==
    \/ \E c \in Callers : LoadCapitalData(c)
    \/ \E l \in DOMAIN capitalLoads : ResponseArrives(l)
    \/ \E l \in DOMAIN capitalLoads : CapitalLoaded(l)
    \/ \E l \in DOMAIN capitalLoads, cause \in FetchCauses \cup BodyCauses : CapitalLoadFails(l, cause)
    \/ \E c \in Callers : CapitalCallSettles(c)

(***************************************************************************)
(* GlobeView.jsx: loadFlagLookup (lines 70-95) under the mounts of the      *)
(* component, each of which calls it once. flagLookupCache is a variable of *)
(* the module and outlives a mount.                                         *)
(***************************************************************************)
Mounts == 1..MaxMounts

\* One call: where it stands, whether it sent a request, the map it returned.
IdleLookup == [pc |-> "idle", requested |-> FALSE, map |-> EmptyFlagMap]

\* What the catch leaves in flagLookupCache (line 92)
CacheAfterLookupFailure == FlagLookup(EmptyFlagMap)

\* loadFlagLookup() up to its first await: `if (flagLookupCache) return
\* flagLookupCache`, or the request.
LoadFlagLookup(c) ==
    /\ lookups[c].pc = "idle"
    /\ IF flagLookupCache.set
       THEN lookups' = [lookups EXCEPT ![c] =
                [pc |-> "returned", requested |-> FALSE, map |-> flagLookupCache.map]]
       ELSE lookups' = [lookups EXCEPT ![c] =
                [pc |-> "fetching", requested |-> TRUE, map |-> EmptyFlagMap]]
    /\ UNCHANGED <<flagLookupCache, enrichRunVars>>
    /\ UNCHANGED <<notSessionVars, mountVars, clickVars, hookVars>>

\* The response arrives with an ok status and parses: the map is built,
\* stored and returned.
LookupResponds(c) ==
    /\ lookups[c].pc = "fetching"
    /\ flagLookupCache' = FlagLookup(LoadedFlagMap)
    /\ lookups' = [lookups EXCEPT ![c].pc = "returned", ![c].map = LoadedFlagMap]
    /\ UNCHANGED enrichRunVars
    /\ UNCHANGED <<notSessionVars, mountVars, clickVars, hookVars>>

\* fetch rejects, the status is not ok or the body does not parse: the catch
\* stores an empty Map and returns it.
LookupThrows(c) ==
    /\ lookups[c].pc = "fetching"
    /\ flagLookupCache' = CacheAfterLookupFailure
    /\ lookups' = [lookups EXCEPT ![c].pc = "returned", ![c].map = EmptyFlagMap]
    /\ UNCHANGED enrichRunVars
    /\ UNCHANGED <<notSessionVars, mountVars, clickVars, hookVars>>

InitLookup == lookups = [c \in Mounts |-> IdleLookup]

NextLookup ==
    \/ \E c \in Mounts : LoadFlagLookup(c)
    \/ \E c \in Mounts : LookupResponds(c)
    \/ \E c \in Mounts : LookupThrows(c)

(***************************************************************************)
(* GlobeView.jsx: the cleanup of the effect (lines 483-503). It cancels the *)
(* animation frame and removes the listeners of the element; it holds no    *)
(* reference to the enrichment closure, whose steps do not read it.         *)
(***************************************************************************)
Teardown ==
    /\ mounted
    /\ mounted' = FALSE
    /\ UNCHANGED enrichVars
    /\ UNCHANGED <<notSessionVars, lookupVars, clickVars, hookVars>>

InitMount == mounted = TRUE

NextTeardown ==
    \/ LookupLoaded
    \/ LookupFailed
    \/ \E i \in 1..N : ImageLoaded(i)
    \/ \E i \in 1..N : ImageFailed(i)
    \/ \E i \in 1..N : PaletteArrives(i)
    \/ \E i \in 1..N : PaletteThrows(i)
    \/ SliceDone
    \/ TimerFires
    \/ Teardown

(***************************************************************************)
(* GlobeView.jsx: handleCountryClick and handleClosePanel (lines 148-189).  *)
(* A name is a sequence of characters; no name (null) is the empty one, for *)
(* which the handler returns before it sets anything.                       *)
(***************************************************************************)
NoName == <<>>

\* What fetchCountryData can resolve with for a name: the matched record, or
\* null after the last failed attempt.
ResolutionsOf(countryName) == {Matched(countryName, AllCountries), None}

\* handleCountryClick up to `await fetchCountryData(countryName)`
HandleCountryClick(countryName) ==
    /\ Len(clicks) < MaxClicks
    /\ isLoadingCountry' = TRUE
    /\ isPanelOpen' = TRUE
    /\ selectedCountry' = countryName
    /\ clicks' = Append(clicks, [name |-> countryName, pc |-> "fetching", data |-> None])
    /\ UNCHANGED countryData
    /\ UNCHANGED <<enrichVars, notSessionVars, lookupVars, mountVars, hookVars>>

\* The continuation of the k-th click after its await: setCountryData(data);
\* setIsLoadingCountry(false).
CountryDataArrives(k, data) ==
    /\ clicks[k].pc = "fetching"
    /\ countryData' = data
    /\ isLoadingCountry' = FALSE
    /\ clicks' = [clicks EXCEPT ![k].pc = "settled", ![k].data = data]
    /\ UNCHANGED <<selectedCountry, isPanelOpen>>
    /\ UNCHANGED <<enrichVars, notSessionVars, lookupVars, mountVars, hookVars>>

HandleClosePanel ==
    /\ isPanelOpen
    /\ isPanelOpen' = FALSE
    /\ selectedCountry' = NoName
    /\ countryData' = None
    /\ UNCHANGED <<isLoadingCountry, clicks>>
    /\ UNCHANGED <<enrichVars, notSessionVars, lookupVars, mountVars, hookVars>>

InitClick ==
    /\ selectedCountry = NoName
    /\ countryData = None
    /\ isLoadingCountry = FALSE
    /\ isPanelOpen = FALSE
    /\ clicks = <<>>

NextClick ==
    \/ \E countryName \in ClickedNames : HandleCountryClick(countryName)
    \/ \E k \in DOMAIN clicks : \E data \in ResolutionsOf(clicks[k].name) :
          CountryDataArrives(k, data)
    \/ HandleClosePanel

(***************************************************************************)
(* hooks/useCountryPopulation.js (lines 12-80) under CountryLayer.jsx       *)
(* (lines 89-127): the popup shows a country, arms its prefetch timer, and  *)
(* the user may ask for the accurate population.                            *)
(***************************************************************************)
CountryCodes == {"FR", "ES"}

\* What fetchWorldBankPopulation resolves with for a code; null otherwise.
WorldBankOf(code) ==
    IF code = "FR" THEN [population |-> 68, year |-> 2023]
    ELSE [population |-> 47, year |-> 2022]

NoData == [population |-> 0, year |-> 0]

NoWorldBankCache == [code \in {} |-> NoData]

NotAvailable == "World Bank data not available"

\* CountryLayer's prefetch effect (lines 91-100), run when one of isOpen,
\* country?.cca2, isLoadingCountry and population.accuratePopulation
\* changes: the cleanup clears the timer, the body arms a new one.
PrefetchArmed(code, data) == code # None /\ data = NoData

\* The effect of the hook on a change of countryData?.cca2 (lines 21-32)
ShowCountry(code) ==
    /\ code # cca2
    /\ cca2' = code
    /\ error' = None
    /\ isLoading' = FALSE
    /\ worldBankData' = IF code \in DOMAIN worldBankCache
                        THEN worldBankCache[code] ELSE NoData
    /\ prefetchTimer' = PrefetchArmed(code, worldBankData')
    /\ UNCHANGED <<worldBankCache, wbFetches>>
    /\ UNCHANGED <<enrichVars, notSessionVars, lookupVars, mountVars, clickVars>>

\* fetchAccuratePopulation up to its await (lines 52-67), called on behalf
\* of origin
FetchAccuratePopulation(origin) ==
    IF cca2 = None \/ worldBankData # NoData \/ isLoading
    THEN UNCHANGED <<worldBankData, isLoading, error, wbFetches>>
    ELSE IF cca2 \in DOMAIN worldBankCache
    THEN /\ worldBankData' = worldBankCache[cca2]
         /\ UNCHANGED <<isLoading, error, wbFetches>>
    ELSE /\ isLoading' = TRUE
         /\ error' = None
         /\ wbFetches' = Append(wbFetches,
                [code |-> cca2, origin |-> origin, pc |-> "fetching"])
         /\ UNCHANGED worldBankData

\* The timer of the prefetch effect fires, 100 ms after it was armed.
PrefetchTimerFires ==
    /\ prefetchTimer
    /\ Len(wbFetches) < MaxRequests
    /\ FetchAccuratePopulation("prefetch")
    /\ prefetchTimer' = FALSE
    /\ UNCHANGED <<cca2, worldBankCache>>
    /\ UNCHANGED <<enrichVars, notSessionVars, lookupVars, mountVars, clickVars>>

\* handleShowMore (lines 122-127): the user asks for the accurate data.
HandleShowMore ==
    /\ cca2 # None
    /\ Len(wbFetches) < MaxRequests
    /\ IF worldBankData = NoData
       THEN FetchAccuratePopulation("user")
       ELSE UNCHANGED <<worldBankData, isLoading, error, wbFetches>>
    /\ prefetchTimer' = (prefetchTimer /\ worldBankData' = worldBankData)
    /\ UNCHANGED <<cca2, worldBankCache>>
    /\ UNCHANGED <<enrichVars, notSessionVars, lookupVars, mountVars, clickVars>>

\* What the k-th call's continuation sets (lines 68-79) when
\* fetchWorldBankPopulation settles: "data", "null" or "throws".
WorldBankSettles(k, outcome) ==
    /\ wbFetches[k].pc = "fetching"
    /\ wbFetches' = [wbFetches EXCEPT ![k].pc = outcome]
    /\ IF outcome = "data"
       THEN /\ worldBankData' = WorldBankOf(wbFetches[k].code)
            /\ worldBankCache' =
                   [code \in DOMAIN worldBankCache \cup {wbFetches[k].code} |->
                       IF code = wbFetches[k].code THEN WorldBankOf(code)
                       ELSE worldBankCache[code]]
            /\ UNCHANGED error
       ELSE /\ error' = IF outcome = "null" THEN NotAvailable ELSE "Failed to fetch"
            /\ UNCHANGED <<worldBankData, worldBankCache>>
    /\ isLoading' = FALSE
    /\ prefetchTimer' = (prefetchTimer /\ worldBankData' = worldBankData)
    /\ UNCHANGED cca2
    /\ UNCHANGED <<enrichVars, notSessionVars, lookupVars, mountVars, clickVars>>

InitHook ==
    /\ cca2 = None
    /\ worldBankCache = NoWorldBankCache
    /\ worldBankData = NoData
    /\ isLoading = FALSE
    /\ error = None
    /\ prefetchTimer = FALSE
    /\ wbFetches = <<>>

NextHook ==
    \/ \E code \in CountryCodes : ShowCountry(code)
    \/ PrefetchTimerFires
    \/ HandleShowMore
    \/ \E k \in DOMAIN wbFetches, outcome \in {"data", "null", "throws"} :
          WorldBankSettles(k, outcome)

InitSession == InitLookup /\ InitMount /\ InitClick /\ InitHook

(***************************************************************************)
(* The specifications: the enrichment run of one mounted globe, the         *)
(* reference-set loader under the user's clicks, the matcher and the        *)
(* normalizer on their inputs, the extractor under its callers.            *)
(***************************************************************************)
\* No helper of colorUtils.js under call, no load of the capitals under way.
InitHexIdle == hexA = <<>> /\ hexB = <<>> /\ hexOut = <<>>

InitMathIdle == rgbA = <<>> /\ rgbB = <<>> /\ quantStep = 0 /\ mathOut = <<>>

InitSampleIdle == buckets = <<>> /\ scanned = <<>> /\ ranking = <<>>

InitPaletteIdle == palettes = <<>>

InitCapitalIdle ==
    /\ isLoaded = FALSE
    /\ loadPromise = <<>>
    /\ capitalCache = {}
    /\ capitalLoads = <<>>
    /\ capitalCalls = <<>>

InitColourIdle == InitHexIdle /\ InitMathIdle /\ InitSampleIdle

InitOthersIdle == InitColourIdle /\ InitPaletteIdle /\ InitCapitalIdle /\ InitSession

InitEnrichRun ==
    InitEnrich /\ InitFetch /\ InitMatchIdle /\ InitExtractIdle /\ InitOthersIdle

SpecEnrich == InitEnrichRun /\ [][NextEnrich]_vars

\* The same run on the smaller datasets, with the fairness its environment
\* gives: the lookup settles, every image fires load or error, and the event
\* loop runs every continuation and timer that is due.
InitEnrichLiveRun == InitEnrichRun /\ Len(features) <= MaxLiveFeatures

SpecEnrichLive == InitEnrichLiveRun /\ [][NextEnrich]_vars /\ WF_vars(NextEnrich)

InitFetchRun ==
    InitEnrichIdle /\ InitFetch /\ InitMatchIdle /\ InitExtractIdle /\ InitOthersIdle

SpecFetch == InitFetchRun /\ [][NextFetch]_vars

\* The loader under every outcome of a request, at one reading of the clock.
SpecFetchOutcomes == InitFetchRun /\ [][NextFetchOutcomes]_vars

InitMatchRun ==
    InitEnrichIdle /\ InitFetch /\ InitMatch /\ InitExtractIdle /\ InitOthersIdle

SpecMatch == InitMatchRun /\ [][NextMatch]_vars

InitNormalizeRun ==
    InitEnrichIdle /\ InitFetch /\ InitNormalize /\ InitExtractIdle /\ InitOthersIdle

SpecNormalize == InitNormalizeRun /\ [][NextNormalize]_vars

InitExtractRun ==
    InitEnrichIdle /\ InitFetch /\ InitMatchIdle /\ InitExtract /\ InitOthersIdle

SpecExtract == InitExtractRun /\ [][NextExtract]_vars

InitHexRun ==
    /\ InitEnrichIdle /\ InitFetch /\ InitMatchIdle /\ InitExtractIdle
    /\ InitHex /\ InitMathIdle /\ InitSampleIdle /\ InitPaletteIdle /\ InitCapitalIdle
    /\ InitSession

SpecHex == InitHexRun /\ [][NextHex]_vars

InitMathRun ==
    /\ InitEnrichIdle /\ InitFetch /\ InitMatchIdle /\ InitExtractIdle
    /\ InitHexIdle /\ InitMath /\ InitSampleIdle /\ InitPaletteIdle /\ InitCapitalIdle
    /\ InitSession

SpecMath == InitMathRun /\ [][NextMath]_vars

InitSampleRun ==
    /\ InitEnrichIdle /\ InitFetch /\ InitMatchIdle /\ InitExtractIdle
    /\ InitHexIdle /\ InitMathIdle /\ InitSample /\ InitPaletteIdle /\ InitCapitalIdle
    /\ InitSession

SpecSample == InitSampleRun /\ [][NextSample]_vars

InitPaletteRun ==
    /\ InitEnrichIdle /\ InitFetch /\ InitMatchIdle /\ InitExtract
    /\ InitColourIdle /\ InitPalette /\ InitCapitalIdle /\ InitSession

SpecPalette == InitPaletteRun /\ [][NextPalette]_vars

InitCapitalRun ==
    /\ InitEnrichIdle /\ InitFetch /\ InitMatchIdle /\ InitExtractIdle
    /\ InitColourIdle /\ InitPaletteIdle /\ InitCapital /\ InitSession

SpecCapital == InitCapitalRun /\ [][NextCapital]_vars

\* The session of one page: a run is any of the others with the rest idle.
InitSessionRun ==
    InitEnrichIdle /\ InitFetch /\ InitMatchIdle /\ InitExtractIdle /\ InitOthersIdle

SpecLookup == InitSessionRun /\ [][NextLookup]_vars

SpecTeardown == InitEnrichLiveRun /\ [][NextTeardown]_vars

SpecClick == InitSessionRun /\ [][NextClick]_vars

SpecHook == InitSessionRun /\ [][NextHook]_vars

(***************************************************************************)
(* Properties of the enrichment.                                            *)
(***************************************************************************)
CeilDiv(a, b) == (a + b - 1) \div b

\* The unit of feature i has finished: it returned early, wrote the accent,
\* or fell back to the base colour.
FeatureSettled(i) == unit[i].pc \in {"returned", "written", "degraded"}

FeatureInFlight(i) == unit[i].pc \in {"loading", "resolved"}

InFlight == {i \in 1..N : FeatureInFlight(i)}

\* The unit of feature i got the fallback result for a flag url: the image
\* failed to load, now or when the cached result was made.
ImageUnavailable(i) ==
    /\ unit[i].url # None
    /\ unit[i].result = ExtractFallback(fallbackAccent)

\* A step that moves index takes the slice that begins at the old index, and
\* finds every feature before it settled, every earlier slice published and
\* the closure yielded to the timer.
C1_StartsNextSlice ==
    index' # index =>
        /\ sliceStart' = index
        /\ index' = Min(N, index + concurrency)
        /\ \A i \in 1..index : FeatureSettled(i)
        /\ publishes = CeilDiv(index, concurrency)
        /\ index > 0 => enrichPc = "timer"

\* The units in flight all belong to the one current slice of at most 6.
C1_OneSliceInFlight ==
    /\ InFlight \subseteq (sliceStart + 1)..sliceEnd
    /\ sliceEnd - sliceStart <= concurrency
    /\ Cardinality(InFlight) <= concurrency

\* C1: every step that starts a slice starts the next one in order, after
\* the slice before it has settled, been published and yielded; and at all
\* times at most one slice, of at most 6 units, is in flight.
C1_SlicesInOrder == [][C1_StartsNextSlice]_vars /\ []C1_OneSliceInFlight

C1_Witness ==
    /\ sliceStart = concurrency
    /\ enrichPc = "awaitAll"
    /\ \E i \in (sliceStart + 1)..sliceEnd : unit[i].pc = "loading"
    /\ \E j \in 1..concurrency : unit[j].pc = "written"

\* The k-th publish step: every feature up to min(6k, n) is settled and the
\* globe reads its final colour, and no feature beyond 6k has been touched.
C2_AtPublish ==
    publishes' = publishes + 1 =>
        LET k == publishes' IN
        /\ \A i \in 1..Min(concurrency * k, N) :
              /\ FeatureSettled(i)
              /\ published'[i] = features[i].color
        /\ \A i \in 1..N : i > concurrency * k =>
              /\ unit[i].pc = "pending"
              /\ features[i].color = features[i].baseColor
              /\ published'[i] = features[i].baseColor

\* C2: at the moment of the k-th publish the features up to min(6k, n) are
\* all settled and no later feature has been modified: what is published is
\* a fully resolved prefix, never a partial slice.
C2_PublishedPrefix == [][C2_AtPublish]_vars

C2_Witness ==
    /\ publishes = 1
    /\ N > concurrency
    /\ enrichPc = "timer"
    /\ \E i \in 1..concurrency : published[i] # features[i].baseColor

\* C3 as stated: a finished run over n features has published ceil(n/6) times.
C3_PublishesCeil ==
    enrichPc = "done" => publishes = CeilDiv(N, concurrency)

ExpectedPublishes == IF N = 0 THEN 1 ELSE CeilDiv(N, concurrency)

\* C3 amended: one publish per slice, ceil(n/6) in total for n >= 1 (two for
\* n = 12), and one publish for the empty feature set.
C3_PublishesOncePerSlice ==
    /\ publishes <= ExpectedPublishes
    /\ enrichPc = "done" => publishes = ExpectedPublishes
    /\ enrichPc = "timer" => publishes = CeilDiv(index, concurrency)
    /\ enrichPc = "awaitAll" /\ N > 0 => publishes = CeilDiv(index, concurrency) - 1

C3_Witness == N = 12 /\ enrichPc = "done" /\ publishes = 2

\* The flag url the boundary dataset and the country service give feature i.
FlagOf(i) ==
    LET k == ((i - 1) % 7) + 1
    IN  CASE k \in {1, 6} -> "fr.svg"
          [] k = 4 -> "es.svg"
          [] k = 7 -> "de.svg"
          [] OTHER -> None

AccentsOf(url) ==
    {fallbackAccent} \cup (IF url = None THEN {} ELSE {sampleImageColors(url)[1]})

\* C4: every feature's colour is defined at all times and is its own base
\* colour or the accent of the palette derived for it (from its own flag).
C4_ColorValid ==
    \A i \in 1..N :
        /\ features[i].color # None
        /\ \/ features[i].color = features[i].baseColor
           \/ /\ unit[i].pc = "written"
              /\ unit[i].palette.base = features[i].baseColor
              /\ features[i].color = unit[i].palette.accent
              /\ features[i].color \in AccentsOf(FlagOf(i))

C4_Witness ==
    /\ enrichPc = "done"
    /\ N = 12
    /\ features[1].color = "#1050B0"
    /\ features[4].color = fallbackAccent
    /\ features[7].color = features[7].baseColor
    /\ features[8].color = "#1050B0"

\* C5 as stated: a feature whose flag image is unavailable ends on its base colour.
C5_FailureGivesBase ==
    \A i \in 1..N :
        unit[i].pc = "written" /\ ImageUnavailable(i) =>
            features[i].color = features[i].baseColor

\* C5 amended: an unavailable image gives the feature the fallback accent, an
\* exception in getCountryPalette gives it its base colour; neither rejects
\* the unit, so the run only stops when every slice has settled and published.
C5_FailureContained ==
    /\ \A i \in 1..N :
          /\ unit[i].pc = "written" /\ ImageUnavailable(i) =>
                features[i].color = fallbackAccent
          /\ unit[i].pc = "degraded" => features[i].color = features[i].baseColor
          /\ unit[i].pc # "rejected"
    /\ enrichPc # "aborted"
    /\ ~(ENABLED NextEnrich) =>
          /\ enrichPc = "done"
          /\ index = N
          /\ publishes = ExpectedPublishes
          /\ \A i \in 1..N : FeatureSettled(i)

C5_Witness ==
    /\ enrichPc = "done"
    /\ N > concurrency
    /\ \E i \in 1..concurrency :
          /\ unit[i].pc = "written" /\ ImageUnavailable(i)
          /\ features[i].color # features[i].baseColor
    /\ \E i \in 1..concurrency : unit[i].pc = "degraded"
    /\ \E i \in 1..concurrency : unit[i].pc = "written" /\ ~ImageUnavailable(i)
    /\ \E i \in (concurrency + 1)..N : unit[i].pc = "written"

HasLookupEntry(i) ==
    /\ Iso3Of(features[i]) # None
    /\ toUpperCase(Iso3Of(features[i])) \in DOMAIN flagMap

LoadsStartedFor(u) ==
    Cardinality({i \in 1..N : unit[i].pc # "pending" /\ HasLookupEntry(i) /\ FlagOf(i) = u})

\* C6: a feature without identity code, or whose code the lookup does not
\* hold, keeps its base colour; no palette is derived and no image loaded
\* for it.
C6_NoLookupKeepsBase ==
    /\ \A i \in 1..N :
          unit[i].pc # "pending" /\ ~HasLookupEntry(i) =>
              /\ unit[i] = [UnitIdle EXCEPT !.pc = "returned"]
              /\ features[i].color = features[i].baseColor
    /\ \A u \in Urls : imageLoads[u] <= LoadsStartedFor(u)

C6_Witness ==
    /\ flagMap = LoadedFlagMap
    /\ N >= 3
    /\ unit[2].pc = "returned"
    /\ unit[3].pc = "returned"
    /\ unit[1].pc = "written"
    /\ imageLoads["fr.svg"] >= 1

(***************************************************************************)
(* Properties of the reference-set loader.                                  *)
(***************************************************************************)
\* The calls whose refresh is pending: a request in flight or a backoff wait.
Refreshing == {c \in Callers : calls[c].pc \in {"fetching", "backoff"}}

\* C7: calls that overlap while no fresh set is cached share one pending
\* fetch, so at most one refresh (one request at a time) is ever pending.
C7_SharedPendingFetch ==
    /\ Cardinality(Refreshing) <= 1
    /\ Cardinality({c \in Callers : calls[c].pc = "fetching"}) <= 1

\* C8: a refresh makes at most 3 attempts, stops at the first success, and
\* after its k-th failed attempt has waited 2^(k-1) seconds (1s, 2s, 4s).
C8_BackoffOneTwoFour ==
    \A c \in Callers :
        /\ calls[c].reqs <= maxRetries
        /\ calls[c].failures <= calls[c].reqs
        /\ calls[c].pc = "returned" /\ calls[c].failures < calls[c].reqs =>
              calls[c].reqs = calls[c].failures + 1
        /\ Len(calls[c].waits) = calls[c].failures
        /\ \A k \in 1..Len(calls[c].waits) : calls[c].waits[k] = Pow2(k - 1) * 1000

\* A step that starts a call: it issues a request exactly when no set is
\* cached or the cached set was stored 30 minutes ago or more.
C9_OnEntry ==
    \A c \in Callers :
        calls[c].pc \in {"idle", "returned"} /\ calls'[c] # calls[c] =>
            LET young == allCountriesCache.set /\ (now - storedAt) < CACHE_DURATION
            IN  /\ calls'[c].reqs > 0 <=> ~young
                /\ calls'[c].pc = (IF young THEN "returned" ELSE "fetching")
                /\ young =>
                      /\ calls'[c].result = Matched(calls'[c].name, allCountriesCache.data)
                      /\ UNCHANGED <<allCountriesCache, cacheTimestamp>>

C10_FailurePropagates ==
    \A c \in Callers :
        calls[c].pc = "returned" /\ calls[c].failures = maxRetries
                                 /\ ~allCountriesCache.set =>
            \/ calls[c].outcome = "rejected"
            \/ calls[c].result # None

\* C11: a call whose refresh of a stale set failed on every attempt is
\* answered from the stale set: for a name the stale set holds it returns
\* that record, not null and not an error.
C11_StaleServedOnFailure ==
    \A c \in Callers :
        /\ calls[c].pc = "returned"
        /\ calls[c].failures = maxRetries
        /\ allCountriesCache.set
        /\ Matched(calls[c].name, allCountriesCache.data) # None
        => /\ calls[c].outcome = "resolved"
           /\ calls[c].result = Matched(calls[c].name, allCountriesCache.data)

\* A step in which an attempt of a call fails.
AttemptFails(c) ==
    /\ calls[c].pc = "fetching"
    /\ calls'[c].failures = calls[c].failures + 1

\* A failed attempt, the last one included, leaves the cached set and its
\* timestamp as they were.
C12_FailureKeepsCache ==
    \A c \in Callers :
        AttemptFails(c) =>
            /\ allCountriesCache' = allCountriesCache
            /\ cacheTimestamp' = cacheTimestamp

\* A caller whose last call failed on every attempt calls again while no
\* younger set has been stored: the call goes to the network again.
C12_LaterCallFetches ==
    \A c \in Callers :
        /\ calls[c].pc = "returned"
        /\ calls[c].failures = maxRetries
        /\ calls'[c] # calls[c]
        /\ ~(allCountriesCache.set /\ (now - storedAt) < CACHE_DURATION)
        => /\ calls'[c].pc = "fetching"
           /\ calls'[c].reqs = 1

\* The timestamp always is that of the last stored response.
C12_StampIsLastStore == cacheTimestamp = storedAt

OverrideHits(q, S) ==
    {k \in 1..Len(S) : \E e \in COUNTRY_NAME_MAP :
        e[1] = q /\ (S[k].common = e[2] \/ S[k].official = e[2])}

ExactHits(q, S) ==
    {k \in 1..Len(S) : toLowerCase(q) \in {toLowerCase(S[k].common), toLowerCase(S[k].official)}}

NormalizedHits(q, S) ==
    {k \in 1..Len(S) : normalizeName(q) \in {normalizeName(S[k].common), normalizeName(S[k].official)}}

Contains(a, b) == \E i \in 0..(Len(a) - Len(b)) : SubSeq(a, i + 1, i + Len(b)) = b

PartialHits(q, S) ==
    {k \in 1..Len(S) : \E n \in {toLowerCase(S[k].common), toLowerCase(S[k].official)} :
        Contains(n, toLowerCase(q)) \/ Contains(toLowerCase(q), n)}

AlternateHits(q, S) ==
    {k \in 1..Len(S) : \E a \in 1..Len(S[k].altSpellings) :
        normalizeName(S[k].altSpellings[a]) = normalizeName(q)}

StrategyHits(q, S) ==
    << OverrideHits(q, S), ExactHits(q, S), NormalizedHits(q, S),
       PartialHits(q, S), AlternateHits(q, S) >>

\* No strategy accepts a record; the empty query is rejected before any
\* strategy is tried.
NoneHits(q, H) == q = <<>> \/ \A t \in 1..5 : H[t] = {}

NoStrategyHits(q, S) == NoneHits(q, StrategyHits(q, S))

\* The earliest strategy that accepts some record.
Earliest(H) == CHOOSE t \in 1..5 : H[t] # {} /\ \A u \in 1..(t - 1) : H[u] = {}

WinningStrategy(q, S) == Earliest(StrategyHits(q, S))

Lowest(hits) == CHOOSE k \in hits : \A j \in hits : k <= j

\* C13: the five strategies are applied in the order override, exact,
\* normalized, partial, alternate spelling, each over the whole reference
\* set; the record returned is a hit of the earliest strategy that has one
\* (a strategy without hit falls through), so an exact match wins over an
\* earlier record that matches only by substring.
C13_EarliestStrategyWins ==
    matchResults # <<>> =>
        LET H == StrategyHits(query, referenceSet)
        IN  \A r \in 1..Len(matchResults) :
                ~NoneHits(query, H) =>
                    /\ matchResults[r] \in H[Earliest(H)]
                    /\ H[2] # {} /\ H[1] = {} => matchResults[r] \in H[2]

C13_Witness ==
    /\ query = <<"N", "i", "g", "e", "r", "i", "a">>
    /\ Len(referenceSet) = 2
    /\ referenceSet[1].cca3 = "NER"
    /\ referenceSet[2].cca3 = "NGA"
    /\ 1 \in PartialHits(query, referenceSet)
    /\ matchResults = <<2, 2>>

\* The value the override table maps the query to; the query is a key.
IsOverrideKey(q) == \E e \in COUNTRY_NAME_MAP : e[1] = q
OverrideValue(q) == (CHOOSE e \in COUNTRY_NAME_MAP : e[1] = q)[2]

\* C14: for a query that is a key of the override table and a reference set
\* holding a record whose common or official name is the mapped value, such
\* a record is returned, whatever the later strategies would return.
C14_OverrideWins ==
    \A r \in 1..Len(matchResults) :
        /\ IsOverrideKey(query)
        /\ \E k \in 1..Len(referenceSet) :
              OverrideValue(query) \in {referenceSet[k].common, referenceSet[k].official}
        => /\ matchResults[r] # 0
           /\ OverrideValue(query) \in {referenceSet[matchResults[r]].common,
                                        referenceSet[matchResults[r]].official}

C14_Witness ==
    /\ query = <<"U", "S">>
    /\ Len(referenceSet) = 2
    /\ referenceSet[1].cca3 = "RUS"
    /\ referenceSet[2].cca3 = "USA"
    /\ PartialHits(query, referenceSet) = {1}
    /\ ExactHits(query, referenceSet) = {}
    /\ matchResults = <<2, 2>>

\* C15: when no strategy matches, the empty query and the empty reference
\* set included, the call returns null.
C15_NoMatchGivesNull ==
    matchResults # <<>> /\ NoStrategyHits(query, referenceSet) =>
        \A r \in 1..Len(matchResults) : matchResults[r] = 0

C15_Witness ==
    /\ query = <<"A", "t", "l", "a", "n", "t", "i", "s">>
    /\ Len(referenceSet) = MaxRecords
    /\ NoStrategyHits(query, referenceSet)
    /\ matchResults = <<0, 0>>

\* C16: the record returned is the lowest-index record the winning strategy
\* accepts, and every call on the same query and reference set returns it.
C16_LowestIndexWins ==
    matchResults # <<>> =>
        LET H == StrategyHits(query, referenceSet)
        IN  \A r \in 1..Len(matchResults) :
                /\ ~NoneHits(query, H) => matchResults[r] = Lowest(H[Earliest(H)])
                /\ matchResults[r] = matchResults[1]

C16_Witness ==
    /\ query = <<"R", "e", "p", "u", "b", "l", "i", "c">>
    /\ Len(referenceSet) = 3
    /\ referenceSet[1].cca3 = "NGA"
    /\ WinningStrategy(query, referenceSet) = 4
    /\ PartialHits(query, referenceSet) = {1, 2, 3}
    /\ matchResults = <<1, 1>>

LowerWordChars == Range(LowerLetters) \cup Digits \cup {"_"}

\* C17: the normalized name is lower-cased, holds only word characters and
\* single spaces, has no leading or trailing whitespace and no run of two
\* whitespace characters; the empty name gives the empty string.
C17_NormalizedForm ==
    normalized.done =>
        LET out == normalized.value
        IN  /\ \A k \in 1..Len(out) : out[k] \in LowerWordChars \cup {" "}
            /\ out # <<>> => ~IsSpaceChar(out[1]) /\ ~IsSpaceChar(out[Len(out)])
            /\ \A k \in 1..(Len(out) - 1) : ~(IsSpaceChar(out[k]) /\ IsSpaceChar(out[k + 1]))
            /\ rawName = <<>> => out = <<>>

(***************************************************************************)
(* Properties of the extractor.                                             *)
(***************************************************************************)
\* A step in which the image load or the sampling of caller c's call fails.
C18_OnFailure ==
    \A c \in Extractors :
        extracts[c].pc = "loading" /\ extracts'[c].failed =>
            LET fallback == [primary |-> extracts[c].fallbackColor, secondary |-> None]
            IN  /\ extracts'[c].pc = "returned"
                /\ extracts'[c].outcome = "resolved"
                /\ extracts'[c].result = fallback
                /\ extracts[c].url \in DOMAIN flagColorCache'
                /\ flagColorCache'[extracts[c].url] = fallback

\* A step in which a caller calls for a reference the cache holds: no load
\* is started, the cached result is returned at once.
C18_OnCachedCall ==
    \A c \in Extractors :
        /\ extracts[c].pc = "idle"
        /\ extracts'[c] # extracts[c]
        /\ extracts'[c].url \in DOMAIN flagColorCache
        => /\ imageLoads' = imageLoads
           /\ ~extracts'[c].loaded
           /\ extracts'[c].pc = "returned"
           /\ extracts'[c].result = flagColorCache[extracts'[c].url]

\* C18: a failed load or sampling does not raise: the call returns
\* {primary: fallbackColor, secondary: null} and stores it in the cache under
\* the reference, so a later call for the reference loads nothing.
C18_FailureCached == [][C18_OnFailure /\ C18_OnCachedCall]_vars

C18_Witness ==
    /\ extracts[1].pc = "returned" /\ extracts[1].failed
    /\ extracts[1].url = "fr.svg" /\ extracts[1].fallbackColor = "#888888"
    /\ extracts[2].pc = "returned" /\ extracts[2].url = "fr.svg"
    /\ ~extracts[2].loaded
    /\ extracts[2].result = [primary |-> "#888888", secondary |-> None]
    /\ imageLoads["fr.svg"] = 1

\* A step in which a caller calls with an absent reference.
C19_OnAbsentCall ==
    \A c \in Extractors :
        /\ extracts[c].pc = "idle"
        /\ extracts'[c] # extracts[c]
        /\ extracts'[c].url = None
        => /\ extracts'[c].pc = "returned"
           /\ extracts'[c].outcome = "resolved"
           /\ extracts'[c].result =
                 [primary |-> extracts'[c].fallbackColor, secondary |-> None]
           /\ ~extracts'[c].loaded
           /\ imageLoads' = imageLoads
           /\ flagColorCache' = flagColorCache

\* C19: a call with an absent reference returns {primary: fallbackColor,
\* secondary: null} at once, loads no image and leaves the cache unchanged.
C19_AbsentReference == [][C19_OnAbsentCall]_vars

C19_Witness ==
    /\ extracts[1].pc = "returned" /\ extracts[1].url = None
    /\ extracts[1].result = [primary |-> fallbackAccent, secondary |-> None]
    /\ DOMAIN flagColorCache = {"es.svg"}
    /\ imageLoads = [u \in Urls |-> IF u = "es.svg" THEN 1 ELSE 0]
    /\ extracts[2].pc = "returned" /\ extracts[2].url = "es.svg"

\* C20: the image of a reference is loaded at most once, whatever the
\* sequence or overlap of the calls for it.
C20_LoadedAtMostOnce == \A u \in Urls : imageLoads[u] <= 1

(***************************************************************************)
(* Properties of the hex helpers.                                           *)
(***************************************************************************)
\* '#' followed by exactly six hex digits, in any letter case.
IsWellFormedHex(str) ==
    /\ Len(str) = 7
    /\ str[1] = "#"
    /\ \A k \in 2..7 : str[k] \in Digits \cup {"a","b","c","d","e","f","A","B","C","D","E","F"}

InUpperCase(str) ==
    [k \in 1..Len(str) |->
        CASE str[k] = "a" -> "A" [] str[k] = "b" -> "B" [] str[k] = "c" -> "C"
          [] str[k] = "d" -> "D" [] str[k] = "e" -> "E" [] str[k] = "f" -> "F"
          [] OTHER -> str[k]]

\* A colour of six hex digits, with or without the leading '#'.
IsValidColour(arg) ==
    /\ arg.given
    /\ \/ IsWellFormedHex(arg.str)
       \/ IsWellFormedHex(<<"#">> \o arg.str)

\* C24: for a well-formed accent and base, accentLight = lighten(accent,
\* 0.18), accentDark = darken(accent, 0.18) and muted = mix(base, accent,
\* 0.35) are each '#' followed by exactly six hex digits.
C24_DerivedWellFormed ==
    hexOut.op = "derive" /\ IsValidColour(hexA) /\ IsValidColour(hexB) =>
        \A out \in {hexOut.accentLight, hexOut.accentDark, hexOut.muted} :
            out.kind = "value" /\ IsWellFormedHex(out.str)

\* C25: for a well-formed hex string s, rgbToHex(hexToRgb(s)) is s in upper
\* case.
C25_RoundTripUpperCase ==
    hexOut.op = "rgbToHex" /\ hexA.given /\ IsWellFormedHex(hexA.str) =>
        hexOut.rendered = Value(InUpperCase(hexA.str))

C25_Witness ==
    /\ hexOut.op = "rgbToHex"
    /\ hexA = Given(<<"#","a","0","F","9","a","F">>)
    /\ hexOut.parsed = Rgb(16000, 24900, 17500)
    /\ hexOut.rendered = Value(<<"#","A","0","F","9","A","F">>)

\* C28: hexToRgb gives null for every input that is not a colour of six hex
\* digits, and lighten, darken and mix return without raising on such input.
C28_MalformedHandled ==
    /\ hexOut.op = "hexToRgb" /\ ~IsValidColour(hexA) => hexOut.parsed.kind = "null"
    /\ hexOut.op = "derive" /\ (~IsValidColour(hexA) \/ ~IsValidColour(hexB)) =>
          \A out \in {hexOut.accentLight, hexOut.accentDark, hexOut.muted} :
              out.kind # "throws"

(***************************************************************************)
(* Properties of quantize and colorDistance.                                *)
(***************************************************************************)
ChannelsOf(c) == {c.r, c.g, c.b}

\* C26: quantize(quantize(c, s), s) = quantize(c, s) for channels in 0..255
\* and every step s >= 1, and with the default step 32 every channel of the
\* bucket lies in 0..255.
C26_QuantizeIdempotent ==
    /\ mathOut.op = "requantize" => mathOut.twice = mathOut.once
    /\ mathOut.op \in {"quantize", "requantize"} /\ quantStep = 32 =>
          \A v \in ChannelsOf(mathOut.once) : 0 <= v /\ v <= 25500

C26_Witness ==
    /\ mathOut.op = "requantize"
    /\ quantStep = 7
    /\ rgbA = Rgb(25500, 3100, 12800)
    /\ mathOut.once = Rgb(25550, 3150, 12950)
    /\ mathOut.twice = Rgb(25550, 3150, 12950)

\* C27: colorDistance(a, a) = 0 and colorDistance(a, b) = colorDistance(b, a).
C27_DistanceSymmetric ==
    mathOut.op = "colorDistance" => mathOut.aa = 0 /\ mathOut.ab = mathOut.ba

C27_Witness ==
    /\ mathOut.op = "colorDistance"
    /\ rgbA = Rgb(0, 3200, 25500)
    /\ rgbB = Rgb(20800, 4800, 4800)
    /\ mathOut.ab = 20800 * 20800 + 1600 * 1600 + 20700 * 20700
    /\ mathOut.ba = mathOut.ab
    /\ mathOut.aa = 0

(***************************************************************************)
(* Properties of the sampling and of the choice of primary and secondary.   *)
(***************************************************************************)
\* The bucket of a pixel with the default step, written out.
BucketOf(p) ==
    Rgb(100 * (32 * ((p.r \div 100) \div 32) + 16),
        100 * (32 * ((p.g \div 100) \div 32) + 16),
        100 * (32 * ((p.b \div 100) \div 32) + 16))

\* The positions of the surviving pixels of the scan that fall in bucket c.
PixelsIn(c) ==
    {i \in 1..Len(scanned) : ~IsSkipped(scanned[i]) /\ BucketOf(scanned[i]) = c}

SurvivingBuckets ==
    {BucketOf(scanned[i]) : i \in {j \in 1..Len(scanned) : ~IsSkipped(scanned[j])}}

FirstPixelIn(c) == CHOOSE i \in PixelsIn(c) : \A j \in PixelsIn(c) : i <= j

\* More than 40 apart, on the squares of the channel differences.
FartherThan40(x, y) ==
    (x.r - y.r) * (x.r - y.r) + (x.g - y.g) * (x.g - y.g)
        + (x.b - y.b) * (x.b - y.b) > 1600 * 10000

\* C21: in a result built on sampled colours the secondary, when present, is
\* farther than 40 from the primary, and it is absent when every ranked
\* colour is within 40 of the primary or no pixel survived the filters.
C21_SecondaryFarFromPrimary ==
    ranking.stage = "picked" =>
        LET primary == hexToRgb(Given(ranking.result.primary.str))
            secondary == ranking.result.secondary
        IN  /\ secondary.kind = "value" =>
                  FartherThan40(hexToRgb(Given(secondary.str)), primary)
            /\ (\A k \in 1..Len(ranking.colors) :
                    ~FartherThan40(ranking.colors[k], primary))
                  => secondary = NoValue

C21_Witness ==
    /\ ranking.stage = "picked"
    /\ ranking.colors = <<Rgb(20800, 8000, 4800), Rgb(20800, 4800, 4800),
                          Rgb(24000, 4800, 4800)>>
    /\ ranking.result.primary = Value(<<"#","D","0","5","0","3","0">>)
    /\ ranking.result.secondary = Value(<<"#","F","0","3","0","3","0">>)

\* C22: the ranking holds at most 6 buckets, in order of non-increasing
\* pixel count, equal counts in the order of their first surviving pixel,
\* and the kept buckets are those of highest count.
C22_RankingOrdered ==
    ranking.stage # "scanning" =>
        LET colors == ranking.colors
            n == Len(colors)
            count == [c \in SurvivingBuckets |-> Cardinality(PixelsIn(c))]
            first == [c \in SurvivingBuckets |-> FirstPixelIn(c)]
        IN  /\ n = Min(6, Cardinality(SurvivingBuckets))
            /\ \A k \in 1..n : colors[k] \in SurvivingBuckets
            /\ \A j, k \in 1..n : j < k =>
                  \/ count[colors[j]] > count[colors[k]]
                  \/ /\ count[colors[j]] = count[colors[k]]
                     /\ first[colors[j]] < first[colors[k]]
            /\ \A c \in SurvivingBuckets :
                  (\A k \in 1..n : colors[k] # c) =>
                      \A k \in 1..n : count[colors[k]] >= count[c]

C22_Witness ==
    /\ ranking.stage = "ranked"
    /\ Len(buckets) = 7
    /\ buckets[7].count = 2
    /\ buckets[1].count = 1
    /\ Len(ranking.colors) = 6
    /\ ranking.colors[1] = KeyColour(buckets[7].key)
    /\ ranking.colors[2] = KeyColour(buckets[1].key)
    /\ ranking.colors[6] = KeyColour(buckets[5].key)

(***************************************************************************)
(* Properties of getCountryPalette.                                         *)
(***************************************************************************)
\* The continent table, read off lines 15-23.
TableColour(region) ==
    CASE region = "Africa" -> "#F4CE29"
      [] region = "Americas" -> "#32A189"
      [] region = "Asia" -> "#FF6B6B"
      [] region = "Europe" -> "#8BBED8"
      [] region = "Oceania" -> "#C77442"
      [] region = "Antarctic" -> "#7C94A4"
      [] OTHER -> "#B1C4BB"

\* The first flag reference the country carries, None when it carries none.
FlagReference(country) ==
    LET refs == <<country.flag, country.flagUrl, country.flags.svg, country.flags.png>>
        present == {k \in 1..4 : refs[k] # None}
    IN  IF present = {} THEN None
        ELSE refs[CHOOSE k \in present : \A j \in present : k <= j]

\* C23: the palette's base is options.baseColor when given, else the
\* continent-table colour of the country's region, else the default colour;
\* its accent is the primary and its secondary the secondary of the
\* extractor's result for the country's flag reference, the extractor having
\* been called with fallbackAccent as fallback.
C23_PaletteFromExtractor ==
    \A c \in Extractors :
        palettes[c].pc = "returned" =>
            /\ palettes[c].palette.base =
                  IF palettes[c].options.baseColor # None
                  THEN palettes[c].options.baseColor
                  ELSE TableColour(palettes[c].country.region)
            /\ extracts[c].url = FlagReference(palettes[c].country)
            /\ extracts[c].fallbackColor = "#C77442"
            /\ palettes[c].palette.accent = extracts[c].result.primary
            /\ palettes[c].palette.secondary = extracts[c].result.secondary

C23_Witness ==
    /\ palettes[1].pc = "returned"
    /\ palettes[1].country = Country("Africa", None, None, "es.svg", "de.svg")
    /\ palettes[1].options = [baseColor |-> None]
    /\ extracts[1].loaded /\ ~extracts[1].failed
    /\ palettes[1].palette =
          [base |-> "#F4CE29", accent |-> "#F0B010", secondary |-> "#B01010"]
    /\ palettes[2].pc = "returned"
    /\ palettes[2].country = Country(None, None, None, None, None)
    /\ palettes[2].options = [baseColor |-> "#123456"]
    /\ palettes[2].palette =
          [base |-> "#123456", accent |-> "#C77442", secondary |-> None]

(***************************************************************************)
(* Properties of the capital loader.                                        *)
(***************************************************************************)
PendingLoads == {l \in DOMAIN capitalLoads : capitalLoads[l].stage \in {"fetch", "json"}}

\* The number of network requests made so far: one per load started.
Requests == Len(capitalLoads)

\* Caller c makes a call in this step.
CapitalCallBy(c) ==
    /\ capitalCalls[c].pc \in {"idle", "returned"}
    /\ capitalCalls'[c] # capitalCalls[c]

\* A call made while a load is pending makes no request and is settled by
\* that load.
C29_OnCallWhilePending ==
    \A c \in Callers :
        CapitalCallBy(c) /\ PendingLoads # {} =>
            /\ Requests' = Requests
            /\ capitalCalls'[c].pc = "waiting"
            /\ capitalCalls'[c].load \in PendingLoads

\* A call made after a load has succeeded makes no request and resolves.
C29_OnCallAfterSuccess ==
    \A c \in Callers :
        CapitalCallBy(c) /\ (\E l \in DOMAIN capitalLoads : capitalLoads[l].stage = "loaded") =>
            /\ Requests' = Requests
            /\ capitalCalls'[c].outcome = "resolved"

\* At most one load is pending, and the callers that wait for a pending load
\* all wait for it.
C29_OnePendingLoad ==
    /\ Cardinality(PendingLoads) <= 1
    /\ \A c, d \in Callers :
          /\ capitalCalls[c].pc = "waiting" /\ capitalCalls[c].load \in PendingLoads
          /\ capitalCalls[d].pc = "waiting" /\ capitalCalls[d].load \in PendingLoads
          => capitalCalls[c].load = capitalCalls[d].load

\* C29: the calls of loadCapitalData that overlap a pending load all follow
\* that one load, for which exactly one network request was made; once a
\* load has succeeded no later call makes a request.
C29_SharedLoad ==
    [][C29_OnCallWhilePending /\ C29_OnCallAfterSuccess]_vars /\ []C29_OnePendingLoad

C29_Witness ==
    /\ Requests = 1
    /\ capitalLoads[1].stage = "loaded"
    /\ \A c \in Callers : capitalCalls[c].outcome = "resolved"
    /\ capitalCalls[1].load = 1
    /\ capitalCalls[2].load = 1

\* A step in which load l fails.
C30_OnFailure ==
    \A l \in DOMAIN capitalLoads :
        capitalLoads[l].stage \in {"fetch", "json"} /\ capitalLoads'[l].stage = "failed" =>
            /\ ~isLoaded'
            /\ loadPromise' = NullPromise

\* A call made when nothing is loaded and nothing is pending starts a load.
C30_OnCallAfterFailure ==
    \A c \in Callers :
        /\ CapitalCallBy(c)
        /\ Requests >= 1
        /\ \A l \in DOMAIN capitalLoads : capitalLoads[l].stage = "failed"
        => /\ Requests' = Requests + 1
           /\ capitalLoads'[Requests + 1].stage = "fetch"
           /\ capitalCalls'[c].load = Requests + 1

\* The callers a failed load has settled were rejected with its error, and
\* with nothing pending after a failure the service is not loaded and holds
\* no promise.
C30_SameError ==
    /\ \A c \in Callers :
          /\ capitalCalls[c].pc = "returned"
          /\ capitalCalls[c].load # 0
          /\ capitalLoads[capitalCalls[c].load].stage = "failed"
          => /\ capitalCalls[c].outcome = "rejected"
             /\ capitalCalls[c].error = capitalLoads[capitalCalls[c].load].error
             /\ capitalCalls[c].error.load = capitalCalls[c].load
    /\ (Requests >= 1 /\ \A l \in DOMAIN capitalLoads : capitalLoads[l].stage = "failed")
          => ~isLoaded /\ loadPromise = NullPromise

\* C30: after a load fails the service is not loaded and has nothing
\* pending, every caller that shared the load sees its error, and the next
\* call makes a new network request.
C30_FailureResets ==
    [][C30_OnFailure /\ C30_OnCallAfterFailure]_vars /\ []C30_SameError

C30_Witness ==
    /\ Requests = 2
    /\ capitalLoads[1].stage = "failed"
    /\ capitalLoads[2].stage = "fetch"
    /\ capitalCalls[2].pc = "returned"
    /\ capitalCalls[2].outcome = "rejected"
    /\ capitalCalls[2].error = [load |-> 1, cause |-> "http"]
    /\ capitalCalls[1].pc = "waiting"
    /\ capitalCalls[1].load = 2
    /\ ~isLoaded

\* C32: a secondary is the earliest colour of the ranking that is farther
\* than 40 from the primary; no qualifying colour ranked before it is passed
\* over.
C32_SecondaryIsFirstFar ==
    ranking.stage = "picked" /\ ranking.result.secondary.kind = "value" =>
        LET primary == hexToRgb(Given(ranking.result.primary.str))
            secondary == hexToRgb(Given(ranking.result.secondary.str))
        IN  \E k \in 1..Len(ranking.colors) :
                /\ ranking.colors[k] = secondary
                /\ FartherThan40(ranking.colors[k], primary)
                /\ \A j \in 1..(k - 1) : ~FartherThan40(ranking.colors[j], primary)

C32_Witness ==
    /\ ranking.stage = "picked"
    /\ Len(ranking.colors) = 5
    /\ ranking.colors[1] = Rgb(20800, 4800, 4800)
    /\ ranking.colors[2] = Rgb(24000, 4800, 4800)
    /\ ranking.colors[3] = Rgb(20800, 8000, 4800)
    /\ ranking.colors[4] = Rgb(4800, 4800, 20800)
    /\ ranking.result.secondary = Value(<<"#","3","0","3","0","D","0">>)

\* C37: a call of extractFlagColors that ends on a degraded path (absent
\* reference, failed load or sampling, or the stored result of such a
\* failure) returns as primary the fallback colour passed to that very call.
C37_FallbackOfThisCall ==
    \A c \in Extractors :
        /\ extracts[c].pc = "returned"
        /\ \/ extracts[c].url = None
           \/ extracts[c].failed
           \/ ~extracts[c].loaded /\ extracts[c].result.secondary = None
        => extracts[c].result.primary = extracts[c].fallbackColor

(***************************************************************************)
(* Further properties of the enrichment.                                    *)
(***************************************************************************)
C33_UnitFinished(i) == unit[i].pc \in {"returned", "written", "degraded"}

\* What a step of the run may do to feature i and its unit.
C33_OnStep ==
    /\ Len(features') = Len(features)
    /\ \A i \in 1..N :
          /\ [features'[i] EXCEPT !.color = None] = [features[i] EXCEPT !.color = None]
          /\ features'[i].color # features[i].color =>
                /\ i \in Slice
                /\ unit[i].pc = "resolved"
                /\ unit'[i].pc \in {"written", "degraded"}
                /\ \A j \in 1..N : j # i => features'[j] = features[j]
          /\ C33_UnitFinished(i) => unit'[i] = unit[i] /\ features'[i] = features[i]
          /\ unit[i].pc = "pending" /\ unit'[i].pc # "pending" =>
                /\ sliceStart' = sliceEnd
                /\ i \in (sliceStart' + 1)..sliceEnd'
          /\ unit[i].pc # "pending" => unit'[i].pc # "pending"

\* The features taken into a slice so far are those up to index, and every
\* feature keeps the base colour and the codes of the dataset.
C33_Sliced ==
    /\ sliceEnd = index
    /\ \A i \in 1..N :
          /\ unit[i].pc = "pending" <=> i > index
          /\ [features[i] EXCEPT !.color = None] = [FeatureAt(i) EXCEPT !.color = None]

\* C33: the run changes nothing of a feature but its color; each feature is
\* taken into exactly one slice, and its color is written at most once, by
\* the unit of that feature.
C33_OnlyColorWritten == [][C33_OnStep]_vars /\ []C33_Sliced

C33_Witness ==
    /\ enrichPc = "done"
    /\ N = 13
    /\ publishes = 3
    /\ features[1].color = "#1050B0" /\ features[1].baseColor = "#8BBED8"
    /\ features[7].color = "#C77442" /\ unit[7].pc = "written"
    /\ features[2].color = features[2].baseColor /\ unit[2].pc = "returned"

\* Every feature is settled, the last slice is published and nothing is
\* scheduled.
C34_Finished ==
    /\ enrichPc = "done"
    /\ index = N
    /\ \A i \in 1..N : unit[i].pc \in {"returned", "written", "degraded"}
    /\ published = [i \in 1..N |-> features[i].color]
    /\ publishes >= 1

\* C34: when the lookup settles and every image load fires load or error, the
\* run settles every feature, publishes the last slice and then schedules no
\* further slice.
C34_Terminates == <>[]C34_Finished

C34_Witness ==
    /\ C34_Finished
    /\ N = 7
    /\ publishes = 2
    /\ unit[7].pc = "written"
    /\ features[7].color = "#D01010"

(***************************************************************************)
(* Properties of the session: the lookup across mounts, the teardown, the   *)
(* clicks and the accurate population.                                      *)
(***************************************************************************)
C35_OnStep ==
    ~mounted =>
        /\ index' = index
        /\ sliceStart' = sliceStart
        /\ features' = features
        /\ publishes' = publishes
        /\ published' = published

\* C35: once the component is torn down, the run starts no further slice,
\* writes no further color and publishes nothing more.
C35_AbandonedRunStops == [][C35_OnStep]_vars

C36_LookupCallBy(c) == lookups[c].pc = "idle" /\ lookups'[c].pc # "idle"

C36_OnCall ==
    \A c \in Mounts :
        (C36_LookupCallBy(c) /\ flagLookupCache # FlagLookup(LoadedFlagMap))
            => lookups'[c].requested

C36_OnlySuccessRecorded == flagLookupCache.set => flagLookupCache.map = LoadedFlagMap

\* C36: a failed load of the lookup is not recorded as loaded, and a call
\* made while no load has succeeded fetches again.
C36_FailureRecoverable == [][C36_OnCall]_vars /\ []C36_OnlySuccessRecorded

\* The clicks on the country selected whose fetch has settled.
C39_SettledForSelected ==
    {k \in DOMAIN clicks : clicks[k].name = selectedCountry /\ clicks[k].pc = "settled"}

\* C39: with a country selected, the panel is out of its loading state only
\* when a fetch for that country has settled, and once every fetch has
\* settled the data shown is what a fetch for that country resolved with.
C39_LatestClickShown ==
    (clicks # <<>> /\ selectedCountry # NoName) =>
        /\ ~isLoadingCountry => C39_SettledForSelected # {}
        /\ (\A k \in DOMAIN clicks : clicks[k].pc = "settled")
              => countryData \in {clicks[k].data : k \in C39_SettledForSelected}

\* C31: every request for the accurate population was started by the user's
\* request for it.
C31_OnlyOnUserAction == \A k \in DOMAIN wbFetches : wbFetches[k].origin = "user"

C40_Settles(k) == wbFetches[k].pc = "fetching" /\ wbFetches'[k].pc # "fetching"

C40_OnSettle ==
    \A k \in DOMAIN wbFetches :
        (C40_Settles(k) /\ wbFetches[k].code # cca2)
            => UNCHANGED <<worldBankData, isLoading, error>>

\* C40: a fetch started for one country that settles while another is shown
\* changes neither the population, the loading flag nor the error shown.
C40_StaleFetchIgnored == [][C40_OnSettle]_vars

\* C38: fetchCountryData never rejects: whatever the requests answer and
\* whenever the matcher throws, a call that has returned resolved with a
\* record of the reference set or with null.
C38_NeverRejects ==
    \A c \in Callers :
        /\ calls[c].outcome # "rejected"
        /\ calls[c].pc = "returned" =>
              /\ calls[c].outcome = "resolved"
              /\ calls[c].result \in {None} \cup {AllCountries[k].cca3 : k \in DOMAIN AllCountries}

C38_Witness ==
    /\ calls[1].pc = "returned"
    /\ calls[1].failures = 3
    /\ calls[1].result = None
    /\ allCountriesCache.data = NotAnArray
    /\ calls[2].pc = "returned"
    /\ calls[2].name = <<"U", "S", "A">>
    /\ calls[2].reqs = 0
    /\ calls[2].outcome = "resolved"
    /\ calls[2].result = None

====
